---- MODULE Spec2Model ----
(***************************************************************************)
(* The contact-enrichment pipeline of the LinkedIn crawler.                *)
(*                                                                         *)
(* The repository holds four versions of the enrichment script:            *)
(*   "sequential"  src/unnamed/part_001:1-211   one record at a time       *)
(*   "queue"       src/unnamed/part_001:213-639 work queue, N workers      *)
(*   "batch"       src/unnamed/part_002         batches, one page per item *)
(*   "shared"      src/src/contactScraper.ts    batches, one page per batch*)
(* The variable `variant` says which of them a behaviour runs.             *)
(***************************************************************************)
EXTENDS Integers, Sequences, FiniteSets, TLC

\* ------------------------------------------------------------------ bounds
\* Number of records of the input file.
NumRecords == 2
\* Size of the page pool.  The source sets MAX_CONCURRENT_PAGES = 5
\* (part_001:257, part_002:47, contactScraper.ts:47); the model runs the same
\* code with a smaller pool.
PoolBound == 2

\* ------------------------------------------------------- program constants
MAX_RETRIES == 2

PAGE_LOAD_TIMEOUT(v) == IF v = "sequential" THEN 10000 ELSE 30000
RETRY_DELAY(v) == IF v = "sequential" THEN 2000 ELSE 5000
SCRAPING_TIMEOUT(v) == IF v = "sequential" THEN 30000 ELSE 60000

Variants == {"sequential", "queue", "batch", "shared"}
Slots == 1..PoolBound
Recs == 1..NumRecords

\* ------------------------------------------------------------- data model
\* interface ContactInfo { emails: string[]; phones: string[] }.  An email or
\* phone is written as the number of the site it was read from (0: a value
\* that was in the input file already).
EmptyInfo == [emails |-> <<>>, phones |-> <<>>]
OldInfo == [emails |-> <<0>>, phones |-> <<>>]

\* What the extractors can return for the content of site u: nothing, an
\* email only, a phone only.
ExtractResults(u) ==
  { EmptyInfo,
    [emails |-> <<u>>, phones |-> <<>>],
    [emails |-> <<>>, phones |-> <<u>>] }

\* interface LinkedInContact.  website 0 is the empty string; contactInfo and
\* crawledDateTime are optional: <<>> is "absent", <<ci>> is "present".
InputRecords(i) ==
  { [name |-> i, website |-> w, contactInfo |-> c, crawledDateTime |-> <<>>] :
      w \in {0, i}, c \in {<<>>, <<OldInfo>>} }

Inputs == { d \in [Recs -> UNION { InputRecords(i) : i \in Recs }] :
              \A i \in Recs : d[i] \in InputRecords(i) }

\* -------------------------------------------------------------------- Mutex
\* class Mutex { locked; queue }.  The queue holds the waiting tasks (the
\* resolve callbacks of their acquire() promises).
NewMutex == [locked |-> FALSE, queue |-> <<>>]

\* An acquire() whose promise never resolves at once.
acquireGranted_never(m) == FALSE

\* acquire(): TRUE when the call is granted at once.
acquireGranted(m) == ~m.locked

\* acquire() that leaves out `this.locked = true`.
acquire_neverLocks(m, t) ==
  IF ~m.locked
    THEN [locked |-> FALSE, queue |-> m.queue]
    ELSE [locked |-> m.locked, queue |-> Append(m.queue, t)]

\* acquire() by task t: the mutex afterwards.
acquire(m, t) ==
  IF ~m.locked
    THEN [locked |-> TRUE, queue |-> m.queue]
    ELSE [locked |-> m.locked, queue |-> Append(m.queue, t)]

\* release() that never calls the resolve() of a waiter.
releaseNext_none(m) == 0

\* release() that calls the resolve() of the newest waiter.
releaseNext_newest(m) ==
  IF Len(m.queue) > 0 THEN m.queue[Len(m.queue)] ELSE 0

\* release(): the waiter whose resolve() is called, 0 when there is none.
releaseNext(m) == IF Len(m.queue) > 0 THEN Head(m.queue) ELSE 0

\* release() that clears `locked` also when it hands the lock to a waiter.
release_unlocksOnHandOver(m) ==
  IF Len(m.queue) > 0
    THEN [locked |-> FALSE, queue |-> Tail(m.queue)]
    ELSE [locked |-> FALSE, queue |-> m.queue]

\* release() that forgets the other waiters.
release_clearsQueue(m) ==
  IF Len(m.queue) > 0
    THEN [locked |-> m.locked, queue |-> <<>>]
    ELSE [locked |-> FALSE, queue |-> m.queue]

\* release(): the mutex afterwards.
release(m) ==
  IF Len(m.queue) > 0
    THEN [locked |-> m.locked, queue |-> Tail(m.queue)]
    ELSE [locked |-> FALSE, queue |-> m.queue]

\* The input file as fs.readFile / JSON.parse find it.
FileStates == {"ok", "missing", "unparseable"}

VARIABLES
  variant,      \* which version of the script runs
  input,        \* the dataset the file held when the run started
  mainpc,       \* position of processJsonFile
  poolSize,     \* pagePool.length
  data,         \* the parsed dataset (empty before the file is read)
  queue,        \* queue / itemsToProcess: indexes into data, in filter order
  batchStart,   \* loop variable i of the batch loop / of the for-of loop
  pc,           \* position of each worker / batch task
  item,         \* the record each worker / batch task works on (0: none)
  snap,         \* the JSON.stringify(data) each in-flight fs.writeFile writes
  op,           \* the extractContactInfo call made for each record
  started,      \* how many extractContactInfo calls were made for each record
  pageUrl,      \* the site each pool page has loaded (0: example.com)
  mutex,        \* const mutex = new Mutex() of the queue dispatcher
  fileMutex,    \* const fileMutex = new Mutex()
  disk,         \* the file: content of the last completed write, and torn:
                \* a write that failed has left it truncated or partial
  file,         \* what fs.readFile and JSON.parse make of the file: "ok",
                \* "missing" (readFile rejects), "unparseable" (parse throws)
  run           \* the process: browser ("none", "open", "closed": close()
                \* was called on it), closeCalls (the pages close() was called
                \* on), closeErrors ('Error closing page' was logged),
                \* rejected (processJsonFile rejected), writeErrors (a
                \* catch block logged a rejected safeWriteFile), exit
                \* (-1: running)

\* The other programs of the repository.
VARIABLES
  crawler,      \* main() of the crawler and its LinkedInCrawler
  contact,      \* getPhones: the contact it is given, and what it returns
  scrape,       \* the extractors: the page content, and the ContactInfo
  tasks         \* tasks using one Mutex: their positions and call order

others == << crawler, contact, scrape, tasks >>

\* What no step of the enrichment script changes.
fixed == << others, variant, input, file >>

vars == << variant, input, mainpc, poolSize, data, queue, batchStart, pc,
           item, snap, op, started, pageUrl, mutex, fileMutex, disk, file,
           run, crawler, contact, scrape, tasks >>


TypeOK ==
  /\ variant \in Variants
  /\ mainpc \in {"start", "read", "join", "delay", "cleanup", "done"}
  /\ poolSize \in 0..PoolBound
  /\ pc \in [Slots -> {"idle", "popWait", "popCS", "enrich", "mergeWait",
                       "mergeCS", "fileWait", "fileCS", "writing", "written",
                       "initWriting", "catchWriting", "delay", "settled",
                       "finished"}]
  /\ item \in [Slots -> 0..NumRecords]
  /\ started \in [Recs -> Nat]
  /\ pageUrl \in [Slots -> 0..NumRecords]
  /\ mutex.locked \in BOOLEAN
  /\ fileMutex.locked \in BOOLEAN
  /\ disk.torn \in BOOLEAN
  /\ file \in FileStates
  /\ run.browser \in {"none", "open", "closed"}
  /\ run.closeCalls \subseteq Slots
  /\ run.closeErrors \in BOOLEAN
  /\ run.writeErrors \in BOOLEAN
  /\ run.rejected \in BOOLEAN
  /\ run.exit \in {-1, 0, 1}

\* ------------------------------------------------------- pure helpers
\* The filter without its contactInfo test.
isEligible_websiteOnly(rec) == rec.website # 0

\* data.filter((item) => !item.company?.contactInfo && item.company?.website)
isEligible(rec) == rec.contactInfo = <<>> /\ rec.website # 0

\* A queue filled with every record of the file.
itemsToProcess_all(d) == [i \in 1..Len(d) |-> i]

\* The filter with its result in the opposite order.
itemsToProcess_reversed(d) ==
  LET kept == SelectSeq([i \in 1..Len(d) |-> i],
                        LAMBDA i : d[i].contactInfo = <<>> /\ d[i].website # 0)
  IN  [k \in 1..Len(kept) |-> kept[Len(kept) + 1 - k]]

\* The filter, as the indexes of the records it keeps, in the order of data.
itemsToProcess(d) ==
  SelectSeq([i \in 1..Len(d) |-> i], LAMBDA i : isEligible(d[i]))

\* queue[0] read in place of queue.shift(): the head stays in the queue.
shift_peek(q) == q

\* queue.shift(): the queue afterwards.
shift(q) == IF q = <<>> THEN q ELSE Tail(q)

\* The test that lets every result through.
hasData_always(ci) == TRUE

\* contactInfo.emails.length > 0 || contactInfo.phones.length > 0
hasData(ci) == Len(ci.emails) > 0 \/ Len(ci.phones) > 0

\* The filtered list serialized in place of the whole array.
stringify_withWebsiteOnly(d) == SelectSeq(d, LAMBDA rec : rec.website # 0)

\* JSON.stringify(data, null, 2): the whole array, every record in order.
stringify(d) == d

\* getTimestamp(): new Date().toISOString(); time is written as a logical
\* clock, one tick per timestamp taken.
RECURSIVE historyLength(_, _)
historyLength(d, n) ==
  IF n = 0 THEN 0 ELSE Len(d[n].crawledDateTime) + historyLength(d, n - 1)
getTimestamp(d) == 1 + historyLength(d, Len(d))

\* ------------------------------------------- extractContactInfo, as a call
\* phase: "none" (no call made), "goto" (page.goto in flight), "content"
\* (page.content in flight), "backoff" (waiting RETRY_DELAY), "returned",
\* "raised" (the call rejected), "done" (the result or the error was taken,
\* or dropped).  retry is retryCount.
\* abandoned: the caller's Promise.race was won by the outer timer.
\* exhausted: the call returned from its catch block, retries used up (it is
\* kept until the caller takes the result).
NoOp == [phase |-> "none", retry |-> 0, page |-> 0, abandoned |-> FALSE,
         exhausted |-> FALSE, result |-> EmptyInfo]

\* extractContactInfo without the test of its url.
extractContactInfo_noUrlTest(p, url) ==
  [NoOp EXCEPT !.phase = "goto", !.page = p]

\* extractContactInfo(page, url): if (!url) return empty; else page.goto.
extractContactInfo(p, url) ==
  IF url = 0
    THEN [NoOp EXCEPT !.phase = "returned", !.page = p]
    ELSE [NoOp EXCEPT !.phase = "goto", !.page = p]

\* A return that gives the empty result when the attempt was a retry.
returnOp_emptyAfterRetry(o, res) ==
  LET got == IF o.retry > 0 THEN EmptyInfo ELSE res IN
  IF o.abandoned
    THEN [o EXCEPT !.phase = "done", !.retry = 0, !.result = got]
    ELSE [o EXCEPT !.phase = "returned", !.result = got]

\* The call returns res.  A call whose caller is gone (abandoned) delivers
\* to nobody; else the call is "returned" until the awaiting task resumes.
returnOp(o, res) ==
  IF o.abandoned
    THEN [o EXCEPT !.phase = "done", !.retry = 0, !.result = res]
    ELSE [o EXCEPT !.phase = "returned", !.result = res]

\* The awaiting task has resumed with the call's result.
deliver(o) == [o EXCEPT !.phase = "done", !.retry = 0, !.exhausted = FALSE]

\* The catch block with `<=` in its test: one retry more.
onScrapeError_oneMoreRetry(o) ==
  IF o.retry <= MAX_RETRIES
    THEN [o EXCEPT !.phase = "backoff"]
    ELSE [returnOp(o, EmptyInfo) EXCEPT !.exhausted = ~o.abandoned]

\* The catch block that throws the error again when the retries are used up.
onScrapeError_rethrows(o) ==
  IF o.retry < MAX_RETRIES
    THEN [o EXCEPT !.phase = "backoff"]
    ELSE [o EXCEPT !.phase = "raised"]

\* The catch block: retry while retryCount < MAX_RETRIES, else return empty.
onScrapeError(o) ==
  IF o.retry < MAX_RETRIES
    THEN [o EXCEPT !.phase = "backoff"]
    ELSE [returnOp(o, EmptyInfo) EXCEPT !.exhausted = ~o.abandoned]

InFlight(o) == o.phase \in {"goto", "content", "backoff"}

\* The latest time (ms after the call) at which a call can still be in a
\* phase: each attempt is bounded by two races of PAGE_LOAD_TIMEOUT, each
\* retry adds RETRY_DELAY.
latestEnd(v, o) ==
  LET attempt == 2 * PAGE_LOAD_TIMEOUT(v) + RETRY_DELAY(v) IN
  CASE o.phase = "goto" -> o.retry * attempt + PAGE_LOAD_TIMEOUT(v)
    [] o.phase = "content" -> o.retry * attempt + 2 * PAGE_LOAD_TIMEOUT(v)
    [] o.phase = "backoff" -> (o.retry + 1) * attempt
    [] OTHER -> 0

\* The outer timer (SCRAPING_TIMEOUT) can win the race only in a phase the
\* call can still be in when the timer fires.
outerTimerCanFire(v, o) == InFlight(o) /\ SCRAPING_TIMEOUT(v) <= latestEnd(v, o)

\* The site a page.content() call reads: the site the page has loaded; the
\* sequential version launches a private browser per call (page 0).
loadedUrl(o, url) == IF o.page = 0 THEN url ELSE pageUrl[o.page]

\* ---------------------------------------------------- lock hand-over
granted(p) ==
  CASE p = "popWait" -> "popCS"
    [] p = "mergeWait" -> "mergeCS"
    [] p = "fileWait" -> "fileCS"
    [] OTHER -> p

\* release(): the positions afterwards (the head waiter's acquire() resolves).
resumeNext(m, p) ==
  LET n == releaseNext(m) IN
  IF n = 0 THEN p ELSE [p EXCEPT ![n] = granted(p[n])]

RECURSIVE acquireAll(_, _, _)
\* Workers s..k call acquire() one after the other.
acquireAll(m, s, k) ==
  IF s > k THEN m ELSE acquireAll(acquire(m, s), s + 1, k)


\* ------------------------------------------------ the other programs
\* [...new Set(list)] with the identity for the Set.
unique_keepsAll(list) == list

RECURSIVE unique(_)
\* [...new Set(list)]: the values of list in the order of their first
\* occurrence.
unique(list) ==
  IF list = <<>> THEN <<>>
  ELSE LET front == unique(SubSeq(list, 1, Len(list) - 1))
           last == list[Len(list)] IN
       IF \E i \in DOMAIN front : front[i] = last THEN front
       ELSE Append(front, last)

SeqsUpTo(S, n) == UNION { [1..k -> S] : k \in 0..n }

\* ---- main() of the crawler (main.ts) and LinkedInCrawler (crawler.ts)
\* Pages the command line can name.
MaxPage == 3

\* new LinkedInCrawler() and the parsed arguments: browser and page are
\* null.  saved: login() stored the session state; closeCalls counts
\* crawler.close(), browserCloses browser.close(); caught: 'Error in main'
\* was logged; rejected: main() rejected.
newCrawler(fromPage, toPage) ==
  [pc |-> "initialize", browser |-> "null", page |-> FALSE,
   fromPage |-> fromPage, toPage |-> toPage, currentPage |-> 0,
   saved |-> FALSE,
   caught |-> FALSE, closeCalls |-> 0, browserCloses |-> 0,
   rejected |-> FALSE]

\* A catch block that ends the process.
onError_exits(c) == [c EXCEPT !.pc = "done", !.caught = TRUE]

\* An await of the try block rejected: catch (error) logs it; then finally.
onError(c) == [c EXCEPT !.pc = "finally", !.caught = TRUE]

\* close(): if (this.browser) await this.browser.close().
close(c, ok) ==
  IF c.browser = "null"
    THEN [c EXCEPT !.pc = "done", !.closeCalls = @ + 1]
    ELSE [c EXCEPT !.pc = "done", !.closeCalls = @ + 1,
                   !.browser = "closed", !.browserCloses = @ + 1,
                   !.rejected = ~ok]

\* ---- getPhones (part_004).  A phone is a string, written as the
\* sequence of its characters: the digits 0..9 and the codes below.
Digits == 0..9
Hyphen == 10       \* '-'
LeftParen == 11    \* '('
RightParen == 12   \* ')'
Space == 13        \* ' '

\* The longest phones list getPhones is given.
MaxPhones == 2

\* /^(800|866|216|440|330)/
LocalPrefixes == { <<8, 0, 0>>, <<8, 6, 6>>, <<2, 1, 6>>, <<4, 4, 0>>,
                   <<3, 3, 0>> }

IsDigit(ch) == ch \in Digits

\* phone.trim().replace(/\D/g, '')
cleanedPhone(phone) == SelectSeq(phone, IsDigit)

\* The map callback keeping eleven digits whatever the first.
normalize_anyLead(phone) ==
  LET cleaned == cleanedPhone(phone) IN
  CASE Len(cleaned) = 10 -> cleaned
    [] Len(cleaned) = 11 -> Tail(cleaned)
    [] OTHER -> <<>>

\* The first map callback: ten digits, or undefined (written <<>>).
normalize(phone) ==
  LET cleaned == cleanedPhone(phone) IN
  CASE Len(cleaned) = 10 -> cleaned
    [] Len(cleaned) = 11 /\ cleaned[1] \in {0, 1} -> Tail(cleaned)
    [] OTHER -> <<>>

\* .filter(Boolean): undefined and '' are dropped.
isTruthy(phone) == phone # <<>>

\* /^(800|866|216|440|330)/.test(phone)
hasLocalPrefix(phone) ==
  Len(phone) >= 3 /\ SubSeq(phone, 1, 3) \in LocalPrefixes

\* phone.match(/(\d{3})(\d{3})(\d{4})/): `(${p1}-${p2}-${p3})`.
formatPhone(phone) ==
  IF Len(phone) >= 10
    THEN <<LeftParen>> \o SubSeq(phone, 1, 3) \o <<Hyphen>>
           \o SubSeq(phone, 4, 6) \o <<Hyphen>> \o SubSeq(phone, 7, 10)
           \o <<RightParen>>
    ELSE phone

RECURSIVE join(_)
\* uniquePhones.join('  ')
join(list) ==
  IF list = <<>> THEN <<>>
  ELSE IF Len(list) = 1 THEN list[1]
  ELSE list[1] \o <<Space, Space>> \o join(Tail(list))

\* The phones after map, filter, filter, map and the Set.
uniquePhones(c) ==
  LET phones == IF c.contactInfo = <<>> THEN <<>>
                ELSE c.contactInfo[1].phones
      cleaned == [i \in 1..Len(phones) |-> normalize(phones[i])]
      local == SelectSeq(SelectSeq(cleaned, isTruthy), hasLocalPrefix)
  IN  unique([i \in 1..Len(local) |-> formatPhone(local[i])])

\* getPhones(contact): the string it returns (no '"' is in it to remove).
getPhones(c) == join(uniquePhones(c))

\* The phone strings getPhones is tried on, for an area code: ten digits,
\* bare and with hyphens; eleven digits starting with 1, 0 and 2; nine
\* digits; twelve digits.
TenDigits(area) == area \o <<5, 5, 5, 0, 1, 0, 0>>

PhoneStrings(area) ==
  LET ten == TenDigits(area) IN
  { ten,
    area \o <<Hyphen, 5, 5, 5, Hyphen, 0, 1, 0, 0>>,
    <<1>> \o ten,
    <<0>> \o ten,
    <<2>> \o ten,
    SubSeq(ten, 1, 9),
    <<1, 1>> \o ten }

AreaCodes == LocalPrefixes \cup { <<5, 5, 5>> }

Contacts ==
  { [contactInfo |-> <<>>, exported |-> <<>>] }
  \cup { [contactInfo |-> << [phones |-> l] >>, exported |-> <<>>] :
           l \in SeqsUpTo(UNION { PhoneStrings(a) : a \in AreaCodes },
                          MaxPhones) }

NoContact == [contactInfo |-> <<>>, exported |-> <<>>]

\* ---- the extractors of extractContactInfo (part_001:366-427).  The page
\* content is written as what the three matchers do on it: parsed, the
\* outcome of emailAddresses.parseAddressList ("throws", "null" or a list
\* of entries, 0 an entry without address); regex, the outcome of
\* matchAll(EMAIL_REGEX) ("throws" or the list of matches); phones, the
\* outcome of matchAll(PHONE_REGEX).
MaxMatches == 2
Addresses == {1, 2}

Matches ==
  { [kind |-> "throws", list |-> <<>>] }
  \cup { [kind |-> "list", list |-> l] : l \in SeqsUpTo(Addresses, MaxMatches) }

Contents ==
  { [parsed |-> pr, regex |-> re, phones |-> ph] :
      pr \in { [kind |-> "throws", list |-> <<>>],
               [kind |-> "null", list |-> <<>>] }
             \cup { [kind |-> "list", list |-> l] :
                      l \in SeqsUpTo(Addresses \cup {0}, MaxMatches) },
      re \in Matches,
      ph \in Matches }

hasAddress(match) == match # 0

\* The first try block: the addresses of the entries, [] when the parser
\* threw (the catch block logs) or returned null.
parsedEmails(c) ==
  IF c.parsed.kind = "list" THEN SelectSeq(c.parsed.list, hasAddress)
  ELSE <<>>

\* The fallback run whatever the parser gave.
useFallback_always(emails) == TRUE

\* if (emails.length === 0)
useFallback(emails) == Len(emails) = 0

\* The second try block: the matches of EMAIL_REGEX, [] when it threw.
fallbackEmails(c) == IF c.regex.kind = "list" THEN c.regex.list ELSE <<>>

\* The emails: the parser's addresses, or the regex matches when the
\* parser gave none; then the Set.
extractEmails(c) ==
  LET emails == IF useFallback(parsedEmails(c)) THEN fallbackEmails(c)
                ELSE parsedEmails(c)
  IN  unique(emails)

\* A catch block of the phone matching that throws the error on.
onPhoneError_rethrows(info) ==
  [info EXCEPT !.raised = TRUE, !.emails = <<>>]

\* The catch block of the phone matching: it logs; phones stays [].
onPhoneError(info) == info

\* The phones: the matches (each has ten characters or more); the Set.
extractPhones(c) == unique(c.phones.list)

\* The extractors on the content c.  raised: an error left the function;
\* fallback: matchAll(EMAIL_REGEX) was called; return { emails, phones }.
extractFromContent(c) ==
  LET found == [raised |-> FALSE,
                fallback |-> useFallback(parsedEmails(c)),
                emails |-> extractEmails(c),
                phones |-> <<>>]
  IN  IF c.phones.kind = "throws" THEN onPhoneError(found)
      ELSE [found EXCEPT !.phones = extractPhones(c)]

NoScrape ==
  [content |-> [parsed |-> [kind |-> "null", list |-> <<>>],
                regex |-> [kind |-> "list", list |-> <<>>],
                phones |-> [kind |-> "list", list |-> <<>>]],
   result |-> <<>>]

\* ---- tasks on one Mutex
NumTasks == 5
Tasks == 1..NumTasks

\* pc: "idle", "waiting" (in acquire()), "holding"; arrivals: the waiting
\* tasks in the order of their acquire() calls; handed: the holder got the
\* lock from a release().
NoTasks == [pc |-> [t \in Tasks |-> "idle"], arrivals |-> <<>>,
            handed |-> FALSE]

\* The other programs are not running.
OthersIdle ==
  /\ crawler = newCrawler(1, 1)
  /\ contact = NoContact
  /\ scrape = NoScrape
  /\ tasks = NoTasks


\* --------------------------------------------------------------- Init
\* The state when processJsonFile is called: the file holds a dataset.
Init ==
  /\ variant \in Variants
  /\ mainpc = IF variant = "sequential" THEN "read" ELSE "start"
  /\ poolSize = 0
  /\ data = <<>>
  /\ queue = <<>>
  /\ batchStart = 0
  /\ pc = [s \in Slots |-> "idle"]
  /\ item = [s \in Slots |-> 0]
  /\ snap = [s \in Slots |-> <<>>]
  /\ op = [r \in Recs |-> NoOp]
  /\ started = [r \in Recs |-> 0]
  /\ pageUrl = [p \in Slots |-> 0]
  /\ mutex = NewMutex
  /\ fileMutex = NewMutex
  /\ file \in FileStates
  /\ input \in IF file = "ok" THEN Inputs ELSE {<<>>}
  /\ disk = [content |-> input, torn |-> FALSE]
  /\ run = [browser |-> IF variant = "sequential" THEN "none" ELSE "open",
            closeCalls |-> {}, closeErrors |-> FALSE, rejected |-> FALSE,
            writeErrors |-> FALSE, exit |-> -1]
  /\ OthersIdle

\* The run is between reading the file and the cleanup.
Running == mainpc \in {"join", "delay"}

\* Scheduling.  The script runs on one JavaScript event loop: a timer or an
\* I/O completion (a macrotask) runs only when every promise continuation
\* that is ready (the microtasks) has run.  A continuation is ready when the
\* promise its task awaits has settled: a granted acquire(), a returned
\* extractContactInfo, a settled safeWriteFile, a settled Promise.all.
ContinuationReady(s) ==
  \/ pc[s] \in {"popCS", "mergeCS", "fileCS", "written"}
  \/ pc[s] = "enrich" /\ op[item[s]].phase \in {"returned", "raised"}
  \/ variant = "sequential" /\ mainpc = "join" /\ pc[s] = "idle" /\ s = 1

JoinReady ==
  /\ mainpc = "join"
  /\ \/ variant = "queue" /\ \A s \in 1..poolSize : pc[s] = "finished"
     \/ variant \in {"batch", "shared"}
          /\ \A s \in Slots : pc[s] \in {"idle", "settled"}

MicrotaskPending == JoinReady \/ \E s \in Slots : ContinuationReady(s)

\* ------------------------------------------------ browser and process
\* A return that leaves the browser open.
browserClose_skipped(r, ok, caught) == r

\* await browser.close(): the process record afterwards.  browser is
\* "closed" once close() was called.  A rejection is caught and logged by
\* the try / catch around the call, or rejects processJsonFile.
browserClose(r, ok, caught) ==
  [r EXCEPT !.browser = "closed", !.rejected = ~ok /\ ~caught]

\* The exit status.  main of part_001 (queue) and part_002 calls
\* process.exit(0) once processJsonFile has resolved and process.exit(1) in
\* its catch block; the other two versions end with main().catch(
\* console.error) and the process exits with status 0.
exitStatus(v, r) ==
  IF v \in {"queue", "batch"} /\ r.rejected THEN 1 ELSE 0

\* The process exits.  Without a process.exit call it exits when nothing
\* keeps the event loop alive: a browser that was launched and not closed
\* does.
Exit ==
  /\ mainpc = "done"
  /\ run.exit = -1
  /\ variant \in {"sequential", "shared"} => run.browser # "open"
  /\ run' = [run EXCEPT !.exit = exitStatus(variant, run)]
  /\ UNCHANGED << fixed, mainpc, poolSize, data, queue,
                  batchStart, pc, item, snap, op, started, pageUrl, mutex,
                  fileMutex, disk >>

\* fs.readFile rejects (no such file) or JSON.parse throws: the catch block
\* of processJsonFile logs the error; the finally block follows (the
\* sequential version has none).
ReadFileFail ==
  /\ mainpc = "read"
  /\ file # "ok"
  /\ mainpc' = IF variant = "sequential" THEN "done" ELSE "cleanup"
  /\ UNCHANGED << fixed, run, poolSize, data, queue,
                  batchStart, pc, item, snap, op, started, pageUrl, mutex,
                  fileMutex, disk >>

\* ------------------------------------------------ page pool creation
\* The loop that fills pagePool: k of the MAX_CONCURRENT_PAGES pages
\* initialise; with none the browser is closed and the function returns.
InitializePages(k, closeOk) ==
  /\ mainpc = "start"
  /\ variant \in {"queue", "batch"}
  /\ poolSize' = k
  /\ mainpc' = IF k = 0 THEN "done" ELSE "read"
  /\ run' = IF k = 0 THEN browserClose(run, closeOk, FALSE) ELSE run
  /\ k # 0 => closeOk
  /\ UNCHANGED << fixed, data, queue, batchStart, pc, item,
                  snap, op, started, pageUrl, mutex, fileMutex, disk >>

\* contactScraper.ts: await Promise.all(Array(MAX).map(() => browser.newPage()))
\* outside the try block: one failure rejects processJsonFile.
NewPages(ok) ==
  /\ mainpc = "start"
  /\ variant = "shared"
  /\ poolSize' = IF ok THEN PoolBound ELSE 0
  /\ mainpc' = IF ok THEN "read" ELSE "done"
  /\ run' = [run EXCEPT !.rejected = ~ok]
  /\ UNCHANGED << fixed, data, queue, batchStart, pc, item,
                  snap, op, started, pageUrl, mutex, fileMutex, disk >>

\* --------------------------------------------- extractContactInfo steps
\* page.goto resolved before its timer: the page has loaded the site.
GotoOk(r) ==
  /\ ~MicrotaskPending
  /\ Running
  /\ op[r].phase = "goto"
  /\ op' = [op EXCEPT ![r].phase = "content"]
  /\ pageUrl' = IF op[r].page = 0 THEN pageUrl
                ELSE [pageUrl EXCEPT ![op[r].page] = data[r].website]
  /\ UNCHANGED << fixed, run, mainpc, poolSize, data, queue,
                  batchStart, pc, item, snap, started, mutex, fileMutex,
                  disk >>

\* page.goto rejected, or 'Page load timeout' won the race.
GotoFail(r) ==
  /\ ~MicrotaskPending
  /\ Running
  /\ op[r].phase = "goto"
  /\ op' = [op EXCEPT ![r] = onScrapeError(@)]
  /\ UNCHANGED << fixed, run, mainpc, poolSize, data, queue,
                  batchStart, pc, item, snap, started, pageUrl, mutex,
                  fileMutex, disk >>

\* page.content() resolved; the extractors ran on it; return {emails, phones}.
ContentOk(r, res) ==
  /\ ~MicrotaskPending
  /\ Running
  /\ op[r].phase = "content"
  /\ res \in ExtractResults(loadedUrl(op[r], data[r].website))
  /\ op' = [op EXCEPT ![r] = returnOp(@, res)]
  /\ UNCHANGED << fixed, run, mainpc, poolSize, data, queue,
                  batchStart, pc, item, snap, started, pageUrl, mutex,
                  fileMutex, disk >>

\* page.content() rejected, or 'Content extraction timeout' won the race.
ContentFail(r) ==
  /\ ~MicrotaskPending
  /\ Running
  /\ op[r].phase = "content"
  /\ op' = [op EXCEPT ![r] = onScrapeError(@)]
  /\ UNCHANGED << fixed, run, mainpc, poolSize, data, queue,
                  batchStart, pc, item, snap, started, pageUrl, mutex,
                  fileMutex, disk >>

\* RETRY_DELAY elapsed: return extractContactInfo(page, url, retryCount + 1).
BackoffEnd(r) ==
  /\ ~MicrotaskPending
  /\ Running
  /\ op[r].phase = "backoff"
  /\ op' = [op EXCEPT ![r].phase = "goto", ![r].retry = @ + 1]
  /\ UNCHANGED << fixed, run, mainpc, poolSize, data, queue,
                  batchStart, pc, item, snap, started, pageUrl, mutex,
                  fileMutex, disk >>


\* ------------------------------------------------ safeWriteFile / writes
\* A safeWriteFile that returns without writing.
safeWriteFileCall_skipped(s, p) ==
  /\ fileMutex' = fileMutex
  /\ pc' = [p EXCEPT ![s] = IF variant = "queue" THEN "written"
                            ELSE "settled"]

\* await fileMutex.acquire() of safeWriteFile, called by task s.
safeWriteFileCall(s, p) ==
  /\ fileMutex' = acquire(fileMutex, s)
  /\ pc' = [p EXCEPT ![s] = IF acquireGranted(fileMutex) THEN "fileCS"
                            ELSE "fileWait"]

\* Where a task goes on when its safeWriteFile call has settled.
afterWrite(v) == IF v = "queue" THEN "written" ELSE "settled"

\* fileMutex is held: fs.writeFile(filePath, JSON.stringify(data, null, 2))
\* is called.  fs.writeFile truncates the file and then writes it: while the
\* call is in flight the file is partial (see OnDisk).
WriteStart(s) ==
  /\ pc[s] = "fileCS"
  /\ snap' = [snap EXCEPT ![s] = stringify(data)]
  /\ pc' = [pc EXCEPT ![s] = "writing"]
  /\ UNCHANGED << fixed, run, mainpc, poolSize, data, queue,
                  batchStart, item, op, started, pageUrl, mutex, fileMutex,
                  disk >>

\* fs.writeFile resolved; finally fileMutex.release().
WriteOk(s) ==
  /\ ~MicrotaskPending
  /\ pc[s] = "writing"
  /\ variant # "sequential"
  /\ disk' = [content |-> snap[s], torn |-> FALSE]
  /\ snap' = [snap EXCEPT ![s] = <<>>]
  /\ fileMutex' = release(fileMutex)
  /\ pc' = resumeNext(fileMutex, [pc EXCEPT ![s] = afterWrite(variant)])
  /\ UNCHANGED << fixed, run, mainpc, poolSize, data, queue,
                  batchStart, item, op, started, pageUrl, mutex >>

\* safeWriteFile without its finally block.
WriteFail_keepsLock(s, truncated) ==
  /\ ~MicrotaskPending
  /\ pc[s] = "writing"
  /\ variant # "sequential"
  /\ disk' = [disk EXCEPT !.torn = IF truncated THEN TRUE ELSE @]
  /\ snap' = [snap EXCEPT ![s] = <<>>]
  /\ pc' = [pc EXCEPT ![s] = afterWrite(variant)]
  /\ run' = [run EXCEPT !.writeErrors = TRUE]
  /\ UNCHANGED << fixed, mainpc, poolSize, data, queue, batchStart, item,
                  op, started, pageUrl, mutex, fileMutex >>

\* A rejected write that nobody catches: processJsonFile rejects.
WriteFail_abortsRun(s, truncated) ==
  /\ ~MicrotaskPending
  /\ pc[s] = "writing"
  /\ variant # "sequential"
  /\ disk' = [disk EXCEPT !.torn = IF truncated THEN TRUE ELSE @]
  /\ snap' = [snap EXCEPT ![s] = <<>>]
  /\ fileMutex' = release(fileMutex)
  /\ pc' = resumeNext(fileMutex, [pc EXCEPT ![s] = afterWrite(variant)])
  /\ run' = [run EXCEPT !.writeErrors = TRUE, !.rejected = TRUE]
  /\ UNCHANGED << fixed, mainpc, poolSize, data, queue,
                  batchStart, item, op, started, pageUrl, mutex >>

\* fs.writeFile rejected (before or after it truncated the file); finally
\* fileMutex.release(); the error goes to the caller's catch block.
WriteFail(s, truncated) ==
  /\ ~MicrotaskPending
  /\ pc[s] = "writing"
  /\ variant # "sequential"
  /\ disk' = [disk EXCEPT !.torn = IF truncated THEN TRUE ELSE @]
  /\ snap' = [snap EXCEPT ![s] = <<>>]
  /\ fileMutex' = release(fileMutex)
  /\ pc' = resumeNext(fileMutex, [pc EXCEPT ![s] = afterWrite(variant)])
  /\ run' = [run EXCEPT !.writeErrors = TRUE]
  /\ UNCHANGED << fixed, mainpc, poolSize, data, queue,
                  batchStart, item, op, started, pageUrl, mutex >>

\* ------------------------------------------------- the queue dispatcher
\* getNextItem, with the lock granted: queue.shift(); finally release().
\* With an item, processItem calls extractContactInfo(page, website);
\* without, the worker loop breaks.
GetNextItem(s) ==
  /\ pc[s] = "popCS"
  /\ LET r == IF queue = <<>> THEN 0 ELSE Head(queue) IN
       /\ queue' = shift(queue)
       /\ mutex' = release(mutex)
       /\ item' = [item EXCEPT ![s] = r]
       /\ pc' = resumeNext(mutex, [pc EXCEPT ![s] = IF r = 0 THEN "finished"
                                                    ELSE "enrich"])
       /\ op' = IF r = 0 THEN op
                ELSE [op EXCEPT ![r] = extractContactInfo(s, data[r].website)]
       /\ started' = IF r = 0 THEN started
                     ELSE [started EXCEPT ![r] = @ + 1]
  /\ UNCHANGED << fixed, run, mainpc, poolSize, data,
                  batchStart, snap, pageUrl, fileMutex, disk >>

\* processItem: extractContactInfo returned; await mutex.acquire().
ProcessItemAcquire(s) ==
  /\ variant = "queue"
  /\ pc[s] = "enrich"
  /\ op[item[s]].phase = "returned"
  /\ mutex' = acquire(mutex, s)
  /\ pc' = [pc EXCEPT ![s] = IF acquireGranted(mutex) THEN "mergeCS"
                             ELSE "mergeWait"]
  /\ op' = [op EXCEPT ![item[s]] = deliver(@)]
  /\ UNCHANGED << fixed, run, mainpc, poolSize, data, queue,
                  batchStart, item, snap, started, pageUrl, fileMutex, disk >>

\* A merge that starts the history anew.
mergeItem_replacesHistory(rec, contactInfo, now) ==
  [rec EXCEPT !.contactInfo = <<contactInfo>>,
              !.crawledDateTime = <<now>>]

\* processItem, line 521-529: the record after the merge.
mergeItem(rec, contactInfo, now) ==
  [rec EXCEPT !.contactInfo = <<contactInfo>>,
              !.crawledDateTime = Append(@, now)]

\* processItem with the lock granted: findIndex, merge, safeWriteFile(...).
ProcessItemMerge(s) ==
  /\ pc[s] = "mergeCS"
  /\ LET r == item[s] IN
       data' = [data EXCEPT
                  ![r] = mergeItem(@, op[r].result, getTimestamp(data))]
  /\ safeWriteFileCall(s, pc)
  /\ UNCHANGED << fixed, run, mainpc, poolSize, queue,
                  batchStart, item, snap, op, started, pageUrl, mutex, disk >>

\* processItem: safeWriteFile settled; finally mutex.release(); then the
\* worker waits 2000 ms.
ProcessItemRelease(s) ==
  /\ pc[s] = "written"
  /\ mutex' = release(mutex)
  /\ pc' = resumeNext(mutex, [pc EXCEPT ![s] = "delay"])
  /\ UNCHANGED << fixed, run, mainpc, poolSize, data, queue,
                  batchStart, item, snap, op, started, pageUrl, fileMutex,
                  disk >>

\* processQueue: the delay is over; the loop calls getNextItem, which calls
\* mutex.acquire().
WorkerLoop(s) ==
  /\ ~MicrotaskPending
  /\ variant = "queue"
  /\ pc[s] = "delay"
  /\ mutex' = acquire(mutex, s)
  /\ pc' = [pc EXCEPT ![s] = IF acquireGranted(mutex) THEN "popCS"
                             ELSE "popWait"]
  /\ item' = [item EXCEPT ![s] = 0]
  /\ UNCHANGED << fixed, run, mainpc, poolSize, data, queue,
                  batchStart, snap, op, started, pageUrl, fileMutex, disk >>

\* await Promise.all(workers): every worker loop has ended.
WorkersJoin ==
  /\ variant = "queue"
  /\ mainpc = "join"
  /\ \A s \in 1..poolSize : pc[s] = "finished"
  /\ mainpc' = "cleanup"
  /\ UNCHANGED << fixed, run, poolSize, data, queue,
                  batchStart, pc, item, snap, op, started, pageUrl, mutex,
                  fileMutex, disk >>

\* The pages on which the finally block calls close(): pagePool.map calls it
\* on every page before any of the calls settles, whichever of them reject.
closeAll(pool, fails) == pool

\* finally of part_001 / part_002: page.close().catch(log) on every page of
\* the pool, then browser.close(), an error of which is caught and logged.
\* finally of contactScraper.ts: browser.close() only, not caught.
Cleanup(fails, closeOk) ==
  /\ mainpc = "cleanup"
  /\ mainpc' = "done"
  /\ fails \subseteq 1..poolSize
  /\ variant = "shared" => fails = {}
  /\ LET calls == IF variant = "shared" THEN {}
                  ELSE closeAll(1..poolSize, fails)
         r1 == [run EXCEPT !.closeCalls = calls,
                           !.closeErrors = (calls \cap fails) # {}]
     IN run' = browserClose(r1, closeOk, variant # "shared")
  /\ UNCHANGED << fixed, poolSize, data, queue, batchStart, pc,
                  item, snap, op, started, pageUrl, mutex, fileMutex, disk >>


\* processJsonFile of the queue version: read and parse the file, filter,
\* fill the queue, start one worker per page.  Each worker runs up to the
\* mutex.acquire() of its first getNextItem call.
ReadFileQueue ==
  /\ variant = "queue"
  /\ mainpc = "read"
  /\ file = "ok"
  /\ data' = disk.content
  /\ queue' = itemsToProcess(disk.content)
  /\ LET m == acquireAll(mutex, 1, poolSize) IN
       /\ mutex' = m
       /\ pc' = [s \in Slots |-> IF s > poolSize THEN "idle"
                                 ELSE IF \E i \in 1..Len(m.queue) :
                                              m.queue[i] = s
                                   THEN "popWait"
                                 ELSE "popCS"]
  /\ mainpc' = "join"
  /\ UNCHANGED << fixed, run, poolSize, batchStart, item, snap,
                  op, started, pageUrl, fileMutex, disk >>

\* ------------------------------------------------- the batch dispatchers
IsBatch == variant \in {"batch", "shared"}

\* The batch loop that steps by the configured pool size in every version.
batchSize_configured(v) == PoolBound

\* The step of the batch loop: pagePool.length (part_002:337), or
\* MAX_CONCURRENT_PAGES (contactScraper.ts:269).
batchSize(v) == IF v = "shared" THEN PoolBound ELSE poolSize

\* The page given to the item at position index of the batch that starts at
\* i: pagePool[index % pagePool.length] (part_002:340), or
\* pages[i % MAX_CONCURRENT_PAGES] for the whole batch (contactScraper.ts:271).
pageFor(v, i, index) ==
  IF v = "shared" THEN (i % PoolBound) + 1 ELSE (index % poolSize) + 1

\* The catch block that marks the record in every version.
catchMerge_marksRecord(v, d, r) == [d EXCEPT ![r].contactInfo = <<EmptyInfo>>]

\* The catch block of the caller of extractContactInfo: the dataset after it.
\* part_001:171-177 marks the record with an empty contactInfo;
\* part_002:264-271 and contactScraper.ts:240-247 save nothing.
catchMerge(v, d, r) ==
  IF v = "sequential" THEN [d EXCEPT ![r].contactInfo = <<EmptyInfo>>] ELSE d

\* One batch: processBatch is called for the items q[i+1 .. i+batchSize], and
\* each call runs up to its Promise.race([extractContactInfo(...), timer]).
startBatch(d, q, i) ==
  LET n == batchSize(variant)
      len == IF Len(q) - i < n THEN Len(q) - i ELSE n
      inBatch(r) == \E s \in 1..len : q[i + s] = r /\ d[r].website # 0
      slotOf(r) == CHOOSE s \in 1..len : q[i + s] = r
  IN
  /\ item' = [s \in Slots |-> IF s <= len THEN q[i + s] ELSE 0]
  /\ pc' = [s \in Slots |-> IF s > len THEN "idle"
                            ELSE IF d[q[i + s]].website = 0 THEN "settled"
                            ELSE "enrich"]
  /\ op' = [r \in Recs |->
              IF inBatch(r)
                THEN extractContactInfo(pageFor(variant, i, slotOf(r) - 1),
                                        d[r].website)
                ELSE op[r]]
  /\ started' = [r \in Recs |-> IF inBatch(r) THEN started[r] + 1
                                ELSE started[r]]

\* processJsonFile of the batch versions: read, parse, filter, first batch.
ReadFileBatch ==
  /\ IsBatch
  /\ mainpc = "read"
  /\ file = "ok"
  /\ data' = disk.content
  /\ queue' = itemsToProcess(disk.content)
  /\ IF itemsToProcess(disk.content) = <<>>
       THEN /\ mainpc' = "cleanup"
            /\ UNCHANGED << pc, item, op, started >>
       ELSE /\ mainpc' = "join"
            /\ startBatch(disk.content, itemsToProcess(disk.content), 0)
  /\ UNCHANGED << fixed, run, poolSize, batchStart, snap,
                  pageUrl, mutex, fileMutex, disk >>

\* processBatch: extractContactInfo won the race.  Only a result with data is
\* merged and saved.
BatchResult(s) ==
  /\ IsBatch
  /\ pc[s] = "enrich"
  /\ op[item[s]].phase = "returned"
  /\ LET r == item[s] IN
       IF hasData(op[r].result)
         THEN /\ data' = [data EXCEPT ![r].contactInfo = <<op[r].result>>]
              /\ safeWriteFileCall(s, pc)
         ELSE /\ pc' = [pc EXCEPT ![s] = "settled"]
              /\ UNCHANGED << data, fileMutex >>
  /\ op' = [op EXCEPT ![item[s]] = deliver(@)]
  /\ UNCHANGED << fixed, run, mainpc, poolSize, queue,
                  batchStart, item, snap, started, pageUrl, mutex, disk >>

\* A timeout that is not caught in processBatch: it ends the batch loop.
ScrapingTimeout_abortsRun(s) ==
  /\ ~MicrotaskPending
  /\ IsBatch
  /\ pc[s] = "enrich"
  /\ outerTimerCanFire(variant, op[item[s]])
  /\ op' = [op EXCEPT ![item[s]].abandoned = TRUE]
  /\ pc' = [t \in Slots |-> "settled"]
  /\ mainpc' = "cleanup"
  /\ UNCHANGED << fixed, run, poolSize, data, queue,
                  batchStart, item, snap, started, pageUrl, mutex, fileMutex,
                  disk >>

\* processBatch: the 'Scraping timeout' timer won the race; the catch block
\* runs; the extractContactInfo call goes on unobserved.
ScrapingTimeout(s) ==
  /\ ~MicrotaskPending
  /\ IsBatch
  /\ pc[s] = "enrich"
  /\ outerTimerCanFire(variant, op[item[s]])
  /\ op' = [op EXCEPT ![item[s]].abandoned = TRUE]
  /\ data' = catchMerge(variant, data, item[s])
  /\ pc' = [pc EXCEPT ![s] = "settled"]
  /\ UNCHANGED << fixed, run, mainpc, poolSize, queue,
                  batchStart, item, snap, started, pageUrl, mutex, fileMutex,
                  disk >>

\* A batch loop that does not await its batch.
BatchJoin_noAwait ==
  /\ IsBatch
  /\ mainpc = "join"
  /\ batchStart' = batchStart + batchSize(variant)
  /\ mainpc' = IF batchStart + batchSize(variant) < Len(queue) THEN "delay"
               ELSE "cleanup"
  /\ pc' = [s \in Slots |-> "idle"]
  /\ item' = [s \in Slots |-> 0]
  /\ UNCHANGED << fixed, run, poolSize, data, queue, snap, op,
                  started, pageUrl, mutex, fileMutex, disk >>

\* await Promise.all(promises) of the batch loop: every task has settled.
\* A delay follows unless this was the last batch.
BatchJoin ==
  /\ IsBatch
  /\ mainpc = "join"
  /\ \A s \in Slots : pc[s] \in {"idle", "settled"}
  /\ batchStart' = batchStart + batchSize(variant)
  /\ mainpc' = IF batchStart + batchSize(variant) < Len(queue) THEN "delay"
               ELSE "cleanup"
  /\ pc' = [s \in Slots |-> "idle"]
  /\ item' = [s \in Slots |-> 0]
  /\ UNCHANGED << fixed, run, poolSize, data, queue, snap, op,
                  started, pageUrl, mutex, fileMutex, disk >>

\* The delay between batches is over: the next batch starts.
BatchDelayEnd ==
  /\ ~MicrotaskPending
  /\ IsBatch
  /\ mainpc = "delay"
  /\ mainpc' = "join"
  /\ startBatch(data, queue, batchStart)
  /\ UNCHANGED << fixed, run, poolSize, data, queue,
                  batchStart, snap, pageUrl, mutex, fileMutex, disk >>


\* ------------------------------------------------ the sequential version
\* It has one task (slot 1), no page pool (each extractContactInfo call
\* launches its own browser) and calls fs.writeFile directly.
IsSeq == variant = "sequential"

\* fs.writeFile(filePath, JSON.stringify(d, null, 2)) is called by task s.
writeFileCall(s, d) ==
  /\ snap' = [snap EXCEPT ![s] = stringify(d)]
  /\ UNCHANGED disk

\* Read and parse the file, then "Initialize the output file".
ReadFileSequential ==
  /\ IsSeq
  /\ mainpc = "read"
  /\ file = "ok"
  /\ data' = disk.content
  /\ writeFileCall(1, disk.content)
  /\ pc' = [pc EXCEPT ![1] = "initWriting"]
  /\ mainpc' = "join"
  /\ UNCHANGED << fixed, run, poolSize, queue, batchStart,
                  item, op, started, pageUrl, mutex, fileMutex >>

\* The initial write settled; a failure ends the run in the outer catch.
InitWriteEnd(ok, truncated) ==
  /\ ~MicrotaskPending
  /\ IsSeq
  /\ pc[1] = "initWriting"
  /\ disk' = IF ok THEN [content |-> snap[1], torn |-> FALSE]
             ELSE [disk EXCEPT !.torn = IF truncated THEN TRUE ELSE @]
  /\ snap' = [snap EXCEPT ![1] = <<>>]
  /\ pc' = [pc EXCEPT ![1] = "idle"]
  /\ mainpc' = IF ok THEN mainpc ELSE "done"
  /\ UNCHANGED << fixed, run, poolSize, data, queue,
                  batchStart, item, op, started, pageUrl, mutex, fileMutex >>

\* for (const item of data): a record with a website is scraped, whatever
\* its contactInfo; the loop ends after the last record.
SeqNext ==
  /\ IsSeq
  /\ mainpc = "join"
  /\ pc[1] = "idle"
  /\ IF batchStart >= Len(data)
       THEN /\ mainpc' = "done"
            /\ UNCHANGED << batchStart, pc, item, op, started >>
       ELSE LET r == batchStart + 1 IN
            IF data[r].website # 0
              THEN /\ item' = [item EXCEPT ![1] = r]
                   /\ op' = [op EXCEPT
                               ![r] = extractContactInfo(0, data[r].website)]
                   /\ started' = [started EXCEPT ![r] = @ + 1]
                   /\ pc' = [pc EXCEPT ![1] = "enrich"]
                   /\ UNCHANGED << mainpc, batchStart >>
              ELSE /\ batchStart' = batchStart + 1
                   /\ UNCHANGED << mainpc, pc, item, op, started >>
  /\ UNCHANGED << fixed, run, poolSize, data, queue, snap,
                  pageUrl, mutex, fileMutex, disk >>

\* extractContactInfo won the race: item.company.contactInfo = contactInfo,
\* then the file is written.
SeqResult ==
  /\ IsSeq
  /\ pc[1] = "enrich"
  /\ op[item[1]].phase = "returned"
  /\ LET d == [data EXCEPT ![item[1]].contactInfo = <<op[item[1]].result>>] IN
       /\ data' = d
       /\ writeFileCall(1, d)
  /\ pc' = [pc EXCEPT ![1] = "writing"]
  /\ op' = [op EXCEPT ![item[1]] = deliver(@)]
  /\ UNCHANGED << fixed, run, mainpc, poolSize, queue,
                  batchStart, item, started, pageUrl, mutex, fileMutex >>

\* The 'Scraping timeout' timer won the race: the catch block marks the
\* record and writes the file.
SeqTimeout ==
  /\ ~MicrotaskPending
  /\ IsSeq
  /\ pc[1] = "enrich"
  /\ outerTimerCanFire(variant, op[item[1]])
  /\ op' = [op EXCEPT ![item[1]].abandoned = TRUE]
  /\ data' = catchMerge(variant, data, item[1])
  /\ writeFileCall(1, catchMerge(variant, data, item[1]))
  /\ pc' = [pc EXCEPT ![1] = "catchWriting"]
  /\ UNCHANGED << fixed, run, mainpc, poolSize, queue,
                  batchStart, item, started, pageUrl, mutex, fileMutex >>

\* extractContactInfo of the sequential version calls chromium.launch() and
\* browser.newPage() before its try block (part_001:50-51): when one of
\* them rejects in an attempt, the call rejects, retries or not.
LaunchFail(r) ==
  /\ ~MicrotaskPending
  /\ IsSeq
  /\ Running
  /\ op[r].phase = "goto"
  /\ op' = [op EXCEPT ![r] = IF @.abandoned THEN deliver(@)
                             ELSE [@ EXCEPT !.phase = "raised"]]
  /\ UNCHANGED << fixed, run, mainpc, poolSize, data, queue,
                  batchStart, pc, item, snap, started, pageUrl, mutex,
                  fileMutex, disk >>

\* The call rejected: the catch block of the loop marks the record and
\* writes the file.
SeqCallRejected ==
  /\ IsSeq
  /\ pc[1] = "enrich"
  /\ op[item[1]].phase = "raised"
  /\ op' = [op EXCEPT ![item[1]] = deliver(@)]
  /\ data' = catchMerge(variant, data, item[1])
  /\ writeFileCall(1, catchMerge(variant, data, item[1]))
  /\ pc' = [pc EXCEPT ![1] = "catchWriting"]
  /\ UNCHANGED << fixed, run, mainpc, poolSize, queue,
                  batchStart, item, started, pageUrl, mutex, fileMutex >>

\* A write of the loop body resolved; the 1000 ms delay follows.
SeqWriteOk ==
  /\ ~MicrotaskPending
  /\ IsSeq
  /\ pc[1] \in {"writing", "catchWriting"}
  /\ disk' = [content |-> snap[1], torn |-> FALSE]
  /\ snap' = [snap EXCEPT ![1] = <<>>]
  /\ pc' = [pc EXCEPT ![1] = "delay"]
  /\ UNCHANGED << fixed, run, mainpc, poolSize, data, queue,
                  batchStart, item, op, started, pageUrl, mutex, fileMutex >>

\* The write in the try block rejected: the catch block marks the record and
\* writes again.
SeqWriteFail(truncated) ==
  /\ ~MicrotaskPending
  /\ IsSeq
  /\ pc[1] = "writing"
  /\ data' = catchMerge(variant, data, item[1])
  /\ snap' = [snap EXCEPT ![1] = stringify(catchMerge(variant, data, item[1]))]
  /\ disk' = [disk EXCEPT !.torn = IF truncated THEN TRUE ELSE @]
  /\ pc' = [pc EXCEPT ![1] = "catchWriting"]
  /\ UNCHANGED << fixed, run, mainpc, poolSize, queue,
                  batchStart, item, op, started, pageUrl, mutex, fileMutex >>

\* The write in the catch block rejected: the error leaves the loop and the
\* outer catch ends the run.
SeqCatchWriteFail(truncated) ==
  /\ ~MicrotaskPending
  /\ IsSeq
  /\ pc[1] = "catchWriting"
  /\ disk' = [disk EXCEPT !.torn = IF truncated THEN TRUE ELSE @]
  /\ snap' = [snap EXCEPT ![1] = <<>>]
  /\ pc' = [pc EXCEPT ![1] = "idle"]
  /\ mainpc' = "done"
  /\ UNCHANGED << fixed, run, poolSize, data, queue,
                  batchStart, item, op, started, pageUrl, mutex, fileMutex >>

\* The delay is over: the loop goes to the next record.
SeqDelayEnd ==
  /\ ~MicrotaskPending
  /\ IsSeq
  /\ pc[1] = "delay"
  /\ pc' = [pc EXCEPT ![1] = "idle"]
  /\ item' = [item EXCEPT ![1] = 0]
  /\ batchStart' = batchStart + 1
  /\ UNCHANGED << fixed, run, mainpc, poolSize, data, queue,
                  snap, op, started, pageUrl, mutex, fileMutex, disk >>

\* ---------------------------------------------------------------- Next
Next ==
  \/ \E k \in 0..PoolBound : \E closeOk \in BOOLEAN :
       InitializePages(k, closeOk)
  \/ ReadFileFail
  \/ \E ok \in BOOLEAN : NewPages(ok)
  \/ ReadFileQueue
  \/ ReadFileBatch
  \/ ReadFileSequential
  \/ \E r \in Recs : GotoOk(r)
  \/ \E r \in Recs : GotoFail(r)
  \/ \E r \in Recs : \E res \in UNION { ExtractResults(u) : u \in Recs } :
       ContentOk(r, res)
  \/ \E r \in Recs : ContentFail(r)
  \/ \E r \in Recs : BackoffEnd(r)
  \/ \E s \in Slots : WriteStart(s)
  \/ \E s \in Slots : WriteOk(s)
  \/ \E s \in Slots : \E truncated \in BOOLEAN : WriteFail(s, truncated)
  \/ \E s \in Slots : GetNextItem(s)
  \/ \E s \in Slots : ProcessItemAcquire(s)
  \/ \E s \in Slots : ProcessItemMerge(s)
  \/ \E s \in Slots : ProcessItemRelease(s)
  \/ \E s \in Slots : WorkerLoop(s)
  \/ WorkersJoin
  \/ \E s \in Slots : BatchResult(s)
  \/ \E s \in Slots : ScrapingTimeout(s)
  \/ BatchJoin
  \/ BatchDelayEnd
  \/ \E ok \in BOOLEAN : \E truncated \in BOOLEAN : InitWriteEnd(ok, truncated)
  \/ SeqNext
  \/ SeqResult
  \/ SeqTimeout
  \/ \E r \in Recs : LaunchFail(r)
  \/ SeqCallRejected
  \/ SeqWriteOk
  \/ \E truncated \in BOOLEAN : SeqWriteFail(truncated)
  \/ \E truncated \in BOOLEAN : SeqCatchWriteFail(truncated)
  \/ SeqDelayEnd
  \/ \E fails \in SUBSET Slots : \E closeOk \in BOOLEAN :
       Cleanup(fails, closeOk)
  \/ Exit

Spec == Init /\ [][Next]_vars

\* The event loop runs a callback whenever one is ready, every timer fires
\* and every I/O call settles: the run does not stop while a step is open.
FairSpec == Spec /\ WF_vars(Next)


\* ------------------------------------------- processItem on any record
\* processItem(page, item) and extractContactInfo(page, url) applied to
\* records of every shape, those the filter would never put in the queue
\* included: a website or none, a crawl history or none.  Timestamps that
\* were in the file are written as negative numbers.
OldHistories == { <<>>, <<-2, -1>> }

ItemRecords(i) ==
  { [name |-> i, website |-> w, contactInfo |-> <<>>, crawledDateTime |-> h] :
      w \in {0, i}, h \in OldHistories }

ItemInputs == { d \in [Recs -> UNION { ItemRecords(i) : i \in Recs }] :
                  \A i \in Recs : d[i] \in ItemRecords(i) }

\* A pool of one page is up, the file was read, the worker has no item.
ItemInit ==
  /\ variant = "queue"
  /\ mainpc = "join"
  /\ poolSize = 1
  /\ input \in ItemInputs
  /\ data = input
  /\ queue = <<>>
  /\ batchStart = 0
  /\ pc = [s \in Slots |-> "idle"]
  /\ item = [s \in Slots |-> 0]
  /\ snap = [s \in Slots |-> <<>>]
  /\ op = [r \in Recs |-> NoOp]
  /\ started = [r \in Recs |-> 0]
  /\ pageUrl = [p \in Slots |-> 0]
  /\ mutex = NewMutex
  /\ fileMutex = NewMutex
  /\ file = "ok"
  /\ disk = [content |-> input, torn |-> FALSE]
  /\ run = [browser |-> "open", closeCalls |-> {}, closeErrors |-> FALSE,
            rejected |-> FALSE, writeErrors |-> FALSE, exit |-> -1]
  /\ OthersIdle

\* Worker s calls processItem(page, item) for record r, which calls
\* extractContactInfo(page, item.company.website).
ProcessItem(s, r) ==
  /\ s \in 1..poolSize
  /\ pc[s] \in {"idle", "delay"}
  /\ started[r] = 0
  /\ item' = [item EXCEPT ![s] = r]
  /\ pc' = [pc EXCEPT ![s] = "enrich"]
  /\ op' = [op EXCEPT ![r] = extractContactInfo(s, data[r].website)]
  /\ started' = [started EXCEPT ![r] = @ + 1]
  /\ UNCHANGED << fixed, run, mainpc, poolSize, data, queue,
                  batchStart, snap, pageUrl, mutex, fileMutex, disk >>

ItemNext ==
  \/ \E s \in Slots : \E r \in Recs : ProcessItem(s, r)
  \/ \E r \in Recs : GotoOk(r)
  \/ \E r \in Recs : GotoFail(r)
  \/ \E r \in Recs : \E res \in UNION { ExtractResults(u) : u \in Recs } :
       ContentOk(r, res)
  \/ \E r \in Recs : ContentFail(r)
  \/ \E r \in Recs : BackoffEnd(r)
  \/ \E s \in Slots : ProcessItemAcquire(s)
  \/ \E s \in Slots : ProcessItemMerge(s)
  \/ \E s \in Slots : WriteStart(s)
  \/ \E s \in Slots : WriteOk(s)
  \/ \E s \in Slots : \E truncated \in BOOLEAN : WriteFail(s, truncated)
  \/ \E s \in Slots : ProcessItemRelease(s)

ItemSpec == ItemInit /\ [][ItemNext]_vars

\* --------------------------------------------- the enrichment script idle
\* The variables of the enrichment script but its mutex.
scriptVars == << variant, input, mainpc, poolSize, data, queue, batchStart,
                 pc, item, snap, op, started, pageUrl, fileMutex, disk,
                 file, run >>

\* No enrichment run is under way.
ScriptIdle ==
  /\ variant = "queue"
  /\ mainpc = "start"
  /\ poolSize = 0
  /\ input = <<>>
  /\ data = <<>>
  /\ queue = <<>>
  /\ batchStart = 0
  /\ pc = [s \in Slots |-> "idle"]
  /\ item = [s \in Slots |-> 0]
  /\ snap = [s \in Slots |-> <<>>]
  /\ op = [r \in Recs |-> NoOp]
  /\ started = [r \in Recs |-> 0]
  /\ pageUrl = [p \in Slots |-> 0]
  /\ mutex = NewMutex
  /\ fileMutex = NewMutex
  /\ file = "missing"
  /\ disk = [content |-> <<>>, torn |-> FALSE]
  /\ run = [browser |-> "none", closeCalls |-> {}, closeErrors |-> FALSE,
            rejected |-> FALSE, writeErrors |-> FALSE, exit |-> -1]

\* ------------------------------------------------- main() of the crawler
\* node main.js [fromPage [toPage]]
CrawlerInit ==
  /\ ScriptIdle
  /\ \E f, t \in 1..MaxPage : crawler = newCrawler(f, t)
  /\ contact = NoContact
  /\ scrape = NoScrape
  /\ tasks = NoTasks

\* initialize(): this.browser = await chromium.launch(...)
Launch(ok) ==
  /\ crawler.pc = "initialize"
  /\ crawler' = IF ok THEN [crawler EXCEPT !.browser = "open",
                                           !.pc = "newContext"]
                ELSE onError(crawler)
  /\ UNCHANGED << scriptVars, mutex, contact, scrape, tasks >>

\* initialize(): this.context = await this.browser.newContext(...), with
\* the stored session or, when that fails, without.
NewContext(ok) ==
  /\ crawler.pc = "newContext"
  /\ crawler' = IF ok THEN [crawler EXCEPT !.pc = "newPage"]
                ELSE onError(crawler)
  /\ UNCHANGED << scriptVars, mutex, contact, scrape, tasks >>

\* initialize(): this.page = await this.context.newPage()
NewPage(ok) ==
  /\ crawler.pc = "newPage"
  /\ crawler' = IF ok THEN [crawler EXCEPT !.page = TRUE, !.pc = "login"]
                ELSE onError(crawler)
  /\ UNCHANGED << scriptVars, mutex, contact, scrape, tasks >>

\* login(): goto the feed and look for the login form.  Logged in already:
\* return; else go on with the form; a rejected await is logged and thrown
\* again.
LoginCheck(outcome) ==
  /\ crawler.pc = "login"
  /\ crawler' =
       CASE outcome = "loggedIn" ->
              [crawler EXCEPT !.pc = "search",
                              !.currentPage = crawler.fromPage]
         [] outcome = "loggedOut" -> [crawler EXCEPT !.pc = "loginForm"]
         [] OTHER -> onError(crawler)
  /\ UNCHANGED << scriptVars, mutex, contact, scrape, tasks >>

\* login(): fill the form, click, save the session state.
LoginSubmit(ok) ==
  /\ crawler.pc = "loginForm"
  /\ crawler' = IF ok THEN [crawler EXCEPT !.pc = "search", !.saved = TRUE,
                                           !.currentPage = crawler.fromPage]
                ELSE onError(crawler)
  /\ UNCHANGED << scriptVars, mutex, contact, scrape, tasks >>

\* salesNavigator(): one turn of the loop over the pages.  "last": the Next
\* button is off, break; "failed": an await rejected, logged and thrown.
SearchPage(outcome) ==
  /\ crawler.pc = "search"
  /\ crawler.currentPage <= crawler.toPage
  /\ crawler' =
       CASE outcome = "more" -> [crawler EXCEPT !.currentPage = @ + 1]
         [] outcome = "last" -> [crawler EXCEPT !.pc = "finally"]
         [] OTHER -> onError(crawler)
  /\ UNCHANGED << scriptVars, mutex, contact, scrape, tasks >>

\* salesNavigator(): currentPage > endPage, the loop ends; main logs the
\* total.
SearchEnd ==
  /\ crawler.pc = "search"
  /\ crawler.currentPage > crawler.toPage
  /\ crawler' = [crawler EXCEPT !.pc = "finally"]
  /\ UNCHANGED << scriptVars, mutex, contact, scrape, tasks >>

\* finally { await crawler.close() }
Close(ok) ==
  /\ crawler.pc = "finally"
  /\ crawler.browser = "null" => ok
  /\ crawler' = close(crawler, ok)
  /\ UNCHANGED << scriptVars, mutex, contact, scrape, tasks >>

CrawlerNext ==
  \/ \E ok \in BOOLEAN : Launch(ok)
  \/ \E ok \in BOOLEAN : NewContext(ok)
  \/ \E ok \in BOOLEAN : NewPage(ok)
  \/ \E outcome \in {"loggedIn", "loggedOut", "failed"} : LoginCheck(outcome)
  \/ \E ok \in BOOLEAN : LoginSubmit(ok)
  \/ \E outcome \in {"more", "last", "failed"} : SearchPage(outcome)
  \/ SearchEnd
  \/ \E ok \in BOOLEAN : Close(ok)

CrawlerSpec == CrawlerInit /\ [][CrawlerNext]_vars

\* ----------------------------------------------------------- getPhones
PhonesInit ==
  /\ ScriptIdle
  /\ contact \in Contacts
  /\ crawler = newCrawler(1, 1)
  /\ scrape = NoScrape
  /\ tasks = NoTasks

\* getPhones(contact) is called: the phones it keeps and the string it
\* returns.
GetPhones ==
  /\ contact.exported = <<>>
  /\ contact' = [contact EXCEPT
                   !.exported = << [phones |-> uniquePhones(contact),
                                    text |-> getPhones(contact)] >>]
  /\ UNCHANGED << scriptVars, mutex, crawler, scrape, tasks >>

PhonesNext == GetPhones

PhonesSpec == PhonesInit /\ [][PhonesNext]_vars

\* ------------------------------------------------------ the extractors
ExtractInit ==
  /\ ScriptIdle
  /\ \E c \in Contents : scrape = [content |-> c, result |-> <<>>]
  /\ crawler = newCrawler(1, 1)
  /\ contact = NoContact
  /\ tasks = NoTasks

\* The extractors run on the content; return { emails, phones }.
Extract ==
  /\ scrape.result = <<>>
  /\ scrape' = [scrape EXCEPT
                  !.result = << extractFromContent(scrape.content) >>]
  /\ UNCHANGED << scriptVars, mutex, crawler, contact, tasks >>

ExtractNext == Extract

ExtractSpec == ExtractInit /\ [][ExtractNext]_vars

\* ------------------------------------------------- tasks on one Mutex
MutexInit ==
  /\ ScriptIdle
  /\ tasks = NoTasks
  /\ crawler = newCrawler(1, 1)
  /\ contact = NoContact
  /\ scrape = NoScrape

\* Task t calls await mutex.acquire().
Acquire(t) ==
  /\ tasks.pc[t] = "idle"
  /\ mutex' = acquire(mutex, t)
  /\ tasks' =
       IF acquireGranted(mutex)
         THEN [tasks EXCEPT !.pc[t] = "holding", !.handed = FALSE]
         ELSE [tasks EXCEPT !.pc[t] = "waiting",
                            !.arrivals = Append(@, t)]
  /\ UNCHANGED << scriptVars, crawler, contact, scrape >>

\* Task t, holding the lock, calls mutex.release(): the waiter whose
\* resolve() is called has the lock.
Release(t) ==
  /\ tasks.pc[t] = "holding"
  /\ mutex' = release(mutex)
  /\ LET n == releaseNext(mutex) IN
       tasks' =
         IF n = 0
           THEN [tasks EXCEPT !.pc[t] = "idle", !.handed = FALSE]
           ELSE [tasks EXCEPT
                   !.pc = [[@ EXCEPT ![t] = "idle"] EXCEPT ![n] = "holding"],
                   !.arrivals = SelectSeq(@, LAMBDA x : x # n),
                   !.handed = TRUE]
  /\ UNCHANGED << scriptVars, crawler, contact, scrape >>

MutexNext ==
  \/ \E t \in Tasks : Acquire(t)
  \/ \E t \in Tasks : Release(t)

MutexSpec == MutexInit /\ [][MutexNext]_vars

\* Every task that has the lock calls release().
MutexFairSpec == MutexSpec /\ \A t \in Tasks : WF_vars(Release(t))


\* ======================================================================
\* Views of the state used by the properties
\* ======================================================================
\* The tasks that hold the dispatcher mutex: granted and not yet released.
MutexHolders ==
  { s \in Slots : variant = "queue" /\
      pc[s] \in {"popCS", "mergeCS", "fileWait", "fileCS", "writing",
                 "written"} }

\* The tasks that hold fileMutex.
FileMutexHolders ==
  { s \in Slots : variant # "sequential" /\ pc[s] \in {"fileCS", "writing"} }

\* The tasks whose fs.writeFile call inside safeWriteFile is in flight.
Writers == { s \in Slots : variant # "sequential" /\ pc[s] = "writing" }

\* Any fs.writeFile call in flight.
WriteInFlight ==
  \E s \in Slots : pc[s] \in {"writing", "initWriting", "catchWriting"}

\* Two datasets hold the same records in the same order.
SameRecords(a, b) ==
  /\ Len(a) = Len(b)
  /\ \A i \in 1..Len(a) : a[i].name = b[i].name /\ a[i].website = b[i].website

\* A contactInfo that the run has put into record r of dataset d.
NewInfo(d, r) == d[r].contactInfo # <<>> /\ input[r].contactInfo = <<>>

\* A contact result with at least one email or one phone.
NonEmpty(ci) == ci.emails # <<>> \/ ci.phones # <<>>

\* A record with a website and without contactInfo.
Unenriched(rec) == rec.website # 0 /\ rec.contactInfo = <<>>

\* What an interruption leaves: fs.writeFile truncates the file and writes
\* it in place, so a call in flight or failed leaves a partial file.
OnDiskPartial == disk.torn \/ WriteInFlight

\* The records whose value in memory is not the value in the file.
MergedNotOnDisk ==
  { r \in 1..Len(data) : data[r].contactInfo # disk.content[r].contactInfo }

\* Only results with data are merged and written; a record whose result was
\* empty or abandoned is left as it was.
MergesOnlyData ==
  \A r \in 1..Len(data) :
    /\ NewInfo(data, r) => NonEmpty(data[r].contactInfo[1])
    /\ NewInfo(disk.content, r) => NonEmpty(disk.content[r].contactInfo[1])
    /\ \A s \in Slots :
         item[s] = r /\ pc[s] \in {"fileWait", "fileCS", "writing"} =>
           NewInfo(data, r) /\ NonEmpty(data[r].contactInfo[1])
    /\ (op[r].phase = "done" /\ ~NonEmpty(op[r].result)) \/ op[r].abandoned =>
         Unenriched(data[r]) /\ Unenriched(disk.content[r])

\* ======================================================================
\* C1: at most one fs.writeFile call inside safeWriteFile is in flight at any
\* time, for any number of concurrent enrichment tasks.
\* ======================================================================
C1_OneWriteAtATime == Cardinality(Writers) <= 1

\* One task writes while another waits in safeWriteFile for fileMutex.
C1_Witness ==
  \E s, t \in Slots : pc[s] = "writing" /\ pc[t] = "fileWait"
                      /\ variant = "batch"

\* ======================================================================
\* C2: at most one task holds a Mutex at any time, also right after
\* release() has handed the lock to a queued waiter.
\* ======================================================================
C2_MutualExclusion ==
  /\ Cardinality(MutexHolders) <= 1
  /\ Cardinality(FileMutexHolders) <= 1
  /\ MutexHolders # {} => mutex.locked
  /\ FileMutexHolders # {} => fileMutex.locked

\* Worker 2 queued in acquire() when the workers started; worker 1 popped
\* the first record and its release() handed the lock to worker 2.
C2_Witness ==
  /\ variant = "queue"
  /\ pc[1] = "enrich" /\ pc[2] = "popCS"
  /\ Len(queue) + 1 = Len(itemsToProcess(input))
  /\ MutexHolders = {2}

\* ======================================================================
\* C3: every eligible record is taken by one worker only, enrichment is
\* started for it at most once, and a taken record is never in the queue
\* again, whatever its enrichment gave.
\* ======================================================================
C3_TakenOnce ==
  /\ \A r \in Recs : started[r] <= 1
  /\ \A s, t \in Slots : s # t /\ item[s] # 0 => item[s] # item[t]
  /\ variant = "queue" => \A i \in 1..Len(queue) : started[queue[i]] = 0

\* Two workers ran, two records were taken, one enrichment gave nothing, and
\* the run is over.
C3_Witness ==
  /\ variant = "queue" /\ poolSize = 2 /\ mainpc = "done"
  /\ \A r \in Recs : started[r] = 1
  /\ \E r \in Recs : op[r].phase = "done" /\ ~hasData(op[r].result)

\* ======================================================================
\* C4: what a write puts in the file is the whole dataset: every record of
\* the input, in the input's order, never the changed record alone or a
\* part of the list.
\* ======================================================================
C4_WholeDataset ==
  /\ SameRecords(disk.content, input)
  /\ \A s \in Slots : snap[s] # <<>> => SameRecords(snap[s], input)
  /\ \A s \in Slots : pc[s] \in {"writing", "initWriting", "catchWriting"} =>
       snap[s] # <<>>

\* The run of two workers is over, both wrote their record, and the file
\* holds the two results.
C4_Witness ==
  /\ variant = "queue" /\ poolSize = 2 /\ mainpc = "done" /\ ~disk.torn
  /\ file = "ok"
  /\ \A r \in Recs : /\ input[r].contactInfo = <<>>
                     /\ disk.content[r].contactInfo # <<>>
                     /\ hasData(disk.content[r].contactInfo[1])


\* ======================================================================
\* C5: a contactInfo that a record has (from the input file, or merged
\* earlier in the run) is never overwritten, emptied or removed: from then
\* on the record in memory and the record in the file keep that value.
\* ======================================================================
C5_NeverOverwritten ==
  [][ /\ \A i \in 1..Len(data) :
           data[i].contactInfo # <<>> =>
             data'[i].contactInfo = data[i].contactInfo
      /\ \A i \in 1..Len(disk.content) :
           disk.content[i].contactInfo # <<>> =>
             disk'.content[i].contactInfo = disk.content[i].contactInfo ]_vars

\* ======================================================================
\* C6: when the outer timeout of a record's enrichment fires in processBatch
\* while extractContactInfo still runs, nothing the abandoned call returns is
\* merged: the record's contactInfo stays absent, in memory and in the file,
\* and no write is made for the record.
\* ======================================================================
C6_AbandonedNeverMerged ==
  IsBatch =>
    \A r \in Recs :
      op[r].abandoned =>
        /\ data[r].contactInfo = <<>>
        /\ disk.content[r].contactInfo = <<>>
        /\ \A s \in Slots : snap[s] # <<>> => snap[s][r].contactInfo = <<>>
        /\ \A s \in Slots : item[s] = r => pc[s] = "settled"

\* The abandoned call went on in the background and returned contacts.
C6_Witness ==
  /\ IsBatch
  /\ \E r \in Recs : /\ op[r].abandoned /\ op[r].phase = "done"
                     /\ hasData(op[r].result)
                     /\ data[r].contactInfo = <<>>

\* ======================================================================
\* C7: if the process is interrupted at any point of a run, the file is a
\* complete snapshot of the dataset (not empty, truncated or torn) and lacks
\* at most one enrichment result that was merged in memory.
\* ======================================================================
C7_CrashSafe ==
  variant \in {"queue", "batch"} =>
    ~OnDiskPartial /\ Cardinality(MergedNotOnDisk) <= 1

\* ======================================================================
\* C8: no two enrichment operations in flight use the same browser page,
\* an operation abandoned after its outer timeout included.
\* ======================================================================
C8_SessionsDisjoint ==
  \A r1, r2 \in Recs :
    r1 # r2 /\ InFlight(op[r1]) /\ InFlight(op[r2]) /\ op[r1].page # 0
      => op[r1].page # op[r2].page

\* ======================================================================
\* C9: in the dispatchers that filter (queue, batch), enrichment is started
\* for the records of the input with a website and without contactInfo, and
\* for no other record; when the dispatcher finishes it was started for
\* every one of them.
\* ======================================================================
C9_StartedIffEligible ==
  variant # "sequential" =>
    /\ \A r \in Recs : started[r] > 0 => Unenriched(input[r])
    /\ \A r \in Recs : op[r].phase # "none" => Unenriched(input[r])
    /\ mainpc \in {"cleanup", "done"} /\ data # <<>> =>
         \A r \in Recs : Unenriched(input[r]) => started[r] > 0

\* The run is over; one record was eligible and was enriched, the other has
\* a website and a contactInfo and was left alone.
C9_Witness ==
  /\ variant = "queue" /\ mainpc = "done" /\ data # <<>>
  /\ \E r, q \in Recs : /\ Unenriched(input[r]) /\ started[r] = 1
                        /\ input[q].website # 0 /\ input[q].contactInfo # <<>>
                        /\ started[q] = 0

\* ======================================================================
\* C10: (as amended) processBatch sets a record's contactInfo and writes
\* the file only when the result has an email or a phone; with an empty
\* result, or after the outer timeout, the contactInfo stays absent, no
\* write is made for the record, and the record is eligible in a later run.
\* ======================================================================
C10_BatchMergesOnlyData == IsBatch => MergesOnlyData

\* The batch run is over: one result was empty and its record is eligible
\* in the file; another result had data and is in the file.
C10_Witness ==
  /\ variant = "batch" /\ mainpc = "done"
  /\ \E r, q \in Recs :
       /\ op[r].phase = "done" /\ ~op[r].abandoned /\ ~NonEmpty(op[r].result)
       /\ Unenriched(disk.content[r])
       /\ NewInfo(disk.content, q)

\* C10 as stated, for the two dispatchers it names (processItem of the queue
\* version, processBatch).
C10_Original == variant \in {"queue", "batch"} => MergesOnlyData

\* ======================================================================
\* C11: an attempt of extractContactInfo that fails is followed by the
\* backoff and one more attempt while fewer than MAX_RETRIES retries were
\* made, and by the return of the empty result after that; a navigation
\* starts only as the first attempt or after a backoff, with retryCount one
\* higher, and retryCount never passes MAX_RETRIES: a site whose every
\* fetch fails is navigated 1 + MAX_RETRIES times, never a fourth time.
\* ======================================================================
C11_RetryBound ==
  [][ \A r \in Recs :
        /\ op'[r].retry <= MAX_RETRIES
        /\ ( /\ op[r].phase \in {"goto", "content"}
             /\ op'[r].phase # op[r].phase
             /\ GotoFail(r) \/ ContentFail(r) ) =>
             IF op[r].retry < MAX_RETRIES
               THEN op'[r].phase = "backoff" /\ op'[r].retry = op[r].retry
               ELSE /\ op'[r].phase \in {"returned", "done"}
                    /\ op'[r].result = EmptyInfo
        /\ (op'[r].phase = "goto" /\ op[r].phase # "goto") =>
             \/ op[r].phase = "none" /\ op'[r].retry = 0
             \/ op[r].phase = "backoff" /\ op'[r].retry = op[r].retry + 1
        /\ (op'[r].exhausted /\ ~op[r].exhausted) =>
             op[r].retry = MAX_RETRIES ]_vars

\* The third attempt failed too: the call returned the empty result.
C11_Witness ==
  \E r \in Recs : /\ op[r].exhausted /\ op[r].phase = "returned"
                   /\ op[r].retry = MAX_RETRIES /\ op[r].result = EmptyInfo
                   /\ variant = "queue"

\* ======================================================================
\* C12: when attempt k + 1 succeeds after k failed attempts (0 <= k <=
\* MAX_RETRIES), the call returns what that attempt extracted, with no
\* further attempt.
\* ======================================================================
C12_SuccessAfterRetries ==
  [][ \A r \in Recs :
        op[r].phase = "content" /\ op'[r].phase # "content" =>
          \A res \in UNION { ExtractResults(u) : u \in Recs } :
            ContentOk(r, res) =>
              /\ op'[r].result = res
              /\ op'[r].phase \in {"returned", "done"}
              /\ ~op'[r].exhausted
              /\ ~op[r].abandoned => op'[r].retry = op[r].retry ]_vars

\* Two attempts failed and the third returned contacts.
C12_Witness ==
  \E r \in Recs : /\ op[r].phase = "returned" /\ ~op[r].exhausted
                   /\ op[r].retry = MAX_RETRIES /\ NonEmpty(op[r].result)

\* ======================================================================
\* C13: extractContactInfo(page, url) never rejects: whatever fails inside
\* it, the call is in flight or has returned a ContactInfo, the empty one
\* when the retries were used up, and a task that awaits the call is never
\* left with a call that has ended without a value.
\* ======================================================================
C13_NeverRaises ==
  variant # "sequential" =>
  \A r \in Recs :
    /\ op[r].phase \in {"none", "goto", "content", "backoff", "returned",
                        "done"}
    /\ op[r].result \in UNION { ExtractResults(u) : u \in Recs }
    /\ op[r].exhausted => op[r].phase = "returned" /\ op[r].result = EmptyInfo
    /\ \A s \in Slots :
         pc[s] = "enrich" /\ item[s] = r =>
           op[r].phase \in {"goto", "content", "backoff", "returned"}

\* The caller of a call whose every attempt failed is about to resume with
\* the empty result.
C13_Witness ==
  \E s \in Slots :
    /\ IsBatch /\ pc[s] = "enrich" /\ item[s] # 0
    /\ op[item[s]].exhausted /\ op[item[s]].result = EmptyInfo

\* ======================================================================
\* C14: every extractContactInfo call a dispatcher task awaits is raced
\* against the outer timer: when the call is still in flight at the time
\* the timer is due, the timer can end the wait; and a record whose call
\* was abandoned that way gets no second call in the run.
\* ======================================================================
C14_OuterTimeout ==
  /\ \A s \in Slots :
       ( /\ pc[s] = "enrich"
         /\ outerTimerCanFire(variant, op[item[s]])
         /\ ~MicrotaskPending )
       => ENABLED (ScrapingTimeout(s) \/ SeqTimeout)
  /\ \A r \in Recs : op[r].abandoned => started[r] = 1

\* ======================================================================
\* C15: the run of the queue dispatcher terminates: processJsonFile
\* returns, and when the file was read it returns with the queue empty,
\* every worker loop ended and every eligible record processed.
\* ======================================================================
C15_RunTerminates ==
  /\ <>(variant # "queue" \/ mainpc = "done")
  /\ [](variant = "queue" /\ mainpc \in {"cleanup", "done"} /\ data # <<>> =>
         /\ queue = <<>>
         /\ \A s \in 1..poolSize : pc[s] = "finished"
         /\ \A r \in Recs : Unenriched(input[r]) => op[r].phase = "done")

\* The process has exited after a run of two workers on two eligible
\* records.
C15_Witness ==
  /\ variant = "queue" /\ mainpc = "done" /\ run.exit = 0 /\ poolSize = 2
  /\ data # <<>> /\ queue = <<>>
  /\ \A r \in Recs : Unenriched(input[r]) /\ op[r].phase = "done"
  /\ \A s \in 1..poolSize : pc[s] = "finished"

\* ======================================================================
\* C16: a failure in one record's processing (fetch attempts used up, outer
\* timeout, failed write) never ends the run of processItem / processBatch
\* early: when the dispatcher finishes, enrichment was started for every
\* eligible record, every call that returned contacts to its caller was
\* merged, and every write that completed has put the merged value in the
\* file.
\* ======================================================================
C16_FaultIsolation ==
  /\ [](variant # "sequential" /\ mainpc \in {"cleanup", "done"}
          /\ data # <<>> =>
         \A r \in Recs :
           Unenriched(input[r]) =>
             /\ started[r] = 1
             /\ op[r].phase = "done" \/ op[r].abandoned
             /\ (op[r].phase = "done" /\ ~op[r].abandoned
                   /\ NonEmpty(op[r].result)) =>
                  data[r].contactInfo = <<op[r].result>>)
  /\ [][ \A s \in Slots :
           WriteOk(s) =>
             /\ ~disk'.torn
             /\ disk'.content[item[s]].contactInfo =
                  data[item[s]].contactInfo ]_vars

\* The batch run is over: the outer timeout ended the wait for one record;
\* the other record's contacts are in memory and in the file.
C16_Witness ==
  /\ variant = "batch" /\ mainpc = "done"
  /\ \E r, q \in Recs :
       /\ op[r].abandoned /\ data[r].contactInfo = <<>>
       /\ op[q].phase = "done" /\ ~op[q].abandoned /\ NonEmpty(op[q].result)
       /\ data[q].contactInfo = <<op[q].result>>
       /\ ~disk.torn /\ disk.content[q].contactInfo = <<op[q].result>>

\* ======================================================================
\* C17: when no page initializes (part_001, part_002), processJsonFile
\* returns without reading the file, without starting an enrichment and
\* without writing the file, and browser.close() was called.
\* ======================================================================
C17_ZeroSessions ==
  variant \in {"queue", "batch"} /\ mainpc # "start" /\ poolSize = 0 =>
    /\ mainpc = "done"
    /\ data = <<>>
    /\ \A r \in Recs : started[r] = 0 /\ op[r].phase = "none"
    /\ \A s \in Slots : pc[s] = "idle" /\ snap[s] = <<>>
    /\ disk = [content |-> input, torn |-> FALSE]
    /\ run.browser = "closed"

\* No page initialized; the file holds eligible records and is as it was.
C17_Witness ==
  /\ variant = "queue" /\ mainpc = "done" /\ poolSize = 0 /\ file = "ok"
  /\ \A r \in Recs : Unenriched(input[r])
  /\ run.browser = "closed" /\ run.exit = 0

\* ======================================================================
\* C18: when k >= 1 of the pages initialize, the run goes on with k
\* workers: no task runs beyond the k pages, every call uses one of the k
\* pages, and when the dispatcher finishes every eligible record was
\* processed.
\* ======================================================================
C18_PartialPool ==
  variant \in {"queue", "batch"} /\ poolSize >= 1 =>
    /\ \A s \in Slots : s > poolSize => pc[s] = "idle" /\ item[s] = 0
    /\ \A r \in Recs : op[r].phase # "none" => op[r].page \in 1..poolSize
    /\ mainpc \in {"cleanup", "done"} /\ data # <<>> =>
         \A r \in Recs : Unenriched(input[r]) => started[r] = 1

\* One page of two initialized; its worker processed the two records.
C18_Witness ==
  /\ variant = "queue" /\ poolSize = 1 /\ poolSize < PoolBound
  /\ mainpc = "done" /\ pc[1] = "finished"
  /\ \A r \in Recs : Unenriched(input[r]) /\ op[r].phase = "done"
                       /\ op[r].page = 1

\* ======================================================================
\* C19: whenever processJsonFile of a version with a page pool has returned
\* or rejected, close() was called on the browser, and (part_001, part_002)
\* on every page of the pool.
\* ======================================================================
C19_CleanupAlways ==
  variant # "sequential" /\ mainpc = "done" =>
    /\ run.browser = "closed"
    /\ variant \in {"queue", "batch"} => run.closeCalls = 1..poolSize

\* ======================================================================
\* C20: when the input file is missing or is not JSON and the run gets to
\* read it, the process exits with a non-zero status and the file is never
\* written.
\* ======================================================================
C20_FatalFileError ==
  file # "ok" /\ (variant = "sequential" \/ poolSize >= 1) =>
    /\ run.exit \in {-1, 1}
    /\ disk = [content |-> input, torn |-> FALSE]
    /\ \A s \in Slots : snap[s] = <<>>

\* ======================================================================
\* C21: a run on a file in which every record has a contactInfo starts no
\* enrichment (no session navigates to a site) and leaves the file as it
\* was; a second run starts from the same file and does the same.
\* ======================================================================
C21_Idempotent ==
  file = "ok" /\ (\A r \in Recs : input[r].contactInfo # <<>>) =>
    /\ \A r \in Recs : started[r] = 0 /\ op[r].phase = "none"
    /\ \A p \in Slots : pageUrl[p] = 0
    /\ disk.content = input
    /\ data \in {<<>>, input}

\* ======================================================================
\* C22: the dispatchers with a page pool never delete, add or reorder
\* records and change no field but contactInfo and crawledDateTime, in
\* memory, in a snapshot and in the file; a record that is not eligible
\* (empty website, or a contactInfo in the input) stays as it was in the
\* input, so a record with an empty website never gets a contactInfo.
\* ======================================================================
C22_Frame ==
  variant # "sequential" /\ file = "ok" =>
    \A d \in {data, disk.content} \cup { snap[s] : s \in Slots } :
      d # <<>> =>
        /\ SameRecords(d, input)
        /\ \A r \in Recs : ~Unenriched(input[r]) => d[r] = input[r]

\* The run is over: one record was enriched and is in the file with its
\* contacts; the other record has no website and is as it was.
C22_Witness ==
  /\ variant = "queue" /\ mainpc = "done" /\ file = "ok" /\ ~disk.torn
  /\ \E r, q \in Recs :
       /\ Unenriched(input[r]) /\ disk.content[r].contactInfo # <<>>
       /\ input[q].website = 0 /\ input[q].contactInfo = <<>>
       /\ disk.content[q] = input[q] /\ data[q] = input[q]

\* ======================================================================
\* C23: extractContactInfo called with an empty url returns the empty
\* ContactInfo at once: the call is never in page.goto, in page.content or
\* in a backoff, makes no retry and neither rejects nor returns from its
\* catch block.
\* ======================================================================
C23_EmptyUrl ==
  \A r \in Recs :
    data[r].website = 0 /\ started[r] > 0 =>
      /\ op[r].phase \in {"returned", "done"}
      /\ op[r].result = EmptyInfo
      /\ op[r].retry = 0
      /\ ~op[r].exhausted

\* A call with an empty url has returned and its caller has not resumed.
C23_Witness ==
  \E s \in Slots :
    /\ pc[s] = "enrich" /\ item[s] # 0
    /\ data[item[s]].website = 0
    /\ op[item[s]].phase = "returned"
    /\ op[item[s]].result = EmptyInfo

\* ======================================================================
\* C25: in the queue version every pass of processItem over a record, one
\* with an empty result included, appends exactly one timestamp to the end
\* of the record's crawledDateTime (created when absent) and keeps the
\* earlier timestamps in their order; a record without a pass keeps the
\* history it had.
\* ======================================================================
C25_OneTimestampPerPass ==
  \A r \in Recs :
    LET old == input[r].crawledDateTime
        new == data[r].crawledDateTime IN
    IF data[r].contactInfo # <<>>
      THEN /\ Len(new) = Len(old) + 1
           /\ SubSeq(new, 1, Len(old)) = old
           /\ new[Len(new)] > 0
      ELSE new = old

\* A record that had two timestamps was processed and has three.
C25_Witness ==
  \E r \in Recs :
    /\ input[r].crawledDateTime = <<-2, -1>>
    /\ data[r].contactInfo # <<>>
    /\ Len(data[r].crawledDateTime) = 3
    /\ disk.content[r] = data[r]

\* The statement with "successful": the history grows by one for a pass
\* that found contacts and by nothing for any other.
C25_Original ==
  \A r \in Recs :
    Len(data[r].crawledDateTime) =
      Len(input[r].crawledDateTime)
        + (IF data[r].contactInfo # <<>> /\ NonEmpty(data[r].contactInfo[1])
             THEN 1 ELSE 0)

\* ======================================================================
\* C24: the ContactInfo the extractors return holds no email twice and no
\* phone twice, whether the emails come from the address parser or, when
\* it gave none, from the pattern.
\* ======================================================================
C24_NoDuplicates ==
  scrape.result # <<>> =>
    LET info == scrape.result[1] IN
    /\ \A i, j \in DOMAIN info.emails :
         info.emails[i] = info.emails[j] => i = j
    /\ \A i, j \in DOMAIN info.phones :
         info.phones[i] = info.phones[j] => i = j

\* The parser gave no address, the pattern matched one email twice and one
\* phone was matched twice: each is returned once.
C24_Witness ==
  /\ scrape.result # <<>>
  /\ scrape.content.parsed.kind = "throws"
  /\ scrape.content.regex.list = <<1, 1>>
  /\ scrape.content.phones.list = <<2, 2>>
  /\ scrape.result[1].emails = <<1>>
  /\ scrape.result[1].phones = <<2>>

\* ======================================================================
\* C26: getPhones keeps a phone whose digits are ten, keeps without its
\* first digit a phone whose digits are eleven and start with 0 or 1, and
\* drops every other; of these it keeps those that start with 800, 866,
\* 216, 440 or 330; the result holds no number twice.
\* ======================================================================
C26_PhoneNormalization ==
  contact.exported # <<>> =>
    LET given == IF contact.contactInfo = <<>> THEN <<>>
                 ELSE contact.contactInfo[1].phones
        kept == contact.exported[1].phones
        \* the ten digits the rule reads in a phone string, if any
        Reads(phone, ten) ==
          LET digits == cleanedPhone(phone) IN
          \/ Len(digits) = 10 /\ ten = digits
          \/ Len(digits) = 11 /\ digits[1] \in {0, 1} /\ ten = Tail(digits)
        Local(ten) == SubSeq(ten, 1, 3) \in LocalPrefixes
        candidates == { cleanedPhone(given[i]) : i \in DOMAIN given }
                      \cup { Tail(cleanedPhone(given[i])) :
                               i \in { k \in DOMAIN given :
                                         cleanedPhone(given[k]) # <<>> } }
    IN
    /\ \A i \in DOMAIN kept :
         \E ten \in candidates :
           /\ kept[i] = formatPhone(ten)
           /\ Local(ten)
           /\ \E j \in DOMAIN given : Reads(given[j], ten)
    /\ \A j \in DOMAIN given : \A ten \in candidates :
         Reads(given[j], ten) /\ Local(ten) =>
           \E i \in DOMAIN kept : kept[i] = formatPhone(ten)
    /\ \A i, j \in DOMAIN kept : kept[i] = kept[j] => i = j

\* The same local number was given with ten digits and with a leading 1,
\* along nothing else: it is exported once.
C26_Witness ==
  /\ contact.exported # <<>>
  /\ contact.contactInfo # <<>>
  /\ contact.contactInfo[1].phones =
       << TenDigits(<<2, 1, 6>>), <<1>> \o TenDigits(<<2, 1, 6>>) >>
  /\ contact.exported[1].phones = << formatPhone(TenDigits(<<2, 1, 6>>)) >>

\* ======================================================================
\* C27: main() of the crawler calls close() exactly once after initialize,
\* login and the search, whether they succeeded or threw, and in no other
\* place; close() closes the browser that was launched and does nothing
\* when none was.
\* ======================================================================
C27_AlwaysCloses ==
  /\ crawler.closeCalls = IF crawler.pc = "done" THEN 1 ELSE 0
  /\ crawler.pc # "done" => ENABLED CrawlerNext
  /\ crawler.browserCloses =
       IF crawler.pc = "done" /\ crawler.browser # "null" THEN 1 ELSE 0
  /\ crawler.pc = "done" => crawler.browser \in {"null", "closed"}

\* The browser was launched, a later step threw, main caught the error and
\* close() closed the browser.
C27_Witness ==
  /\ crawler.pc = "done"
  /\ crawler.caught
  /\ crawler.browser = "closed"
  /\ crawler.closeCalls = 1

\* ======================================================================
\* C28: the Mutex grants in the order of the acquire() calls: a release()
\* hands the lock to the task that has waited longest, and a task calling
\* acquire() while the lock is held or handed over is not granted it.
\* ======================================================================
C28_Fifo ==
  [][\A t \in Tasks :
       tasks.pc[t] # "holding" /\ tasks'.pc[t] = "holding" =>
         IF tasks.pc[t] = "waiting"
           THEN t = Head(tasks.arrivals)
           ELSE /\ tasks.arrivals = <<>>
                /\ \A u \in Tasks : tasks.pc[u] = "idle"]_vars

\* A task got the lock from a release() while two others were waiting.
C28_Witness ==
  /\ tasks.handed
  /\ Len(tasks.arrivals) >= 2
  /\ \E t \in Tasks : tasks.pc[t] = "holding"

\* ======================================================================
\* C29: when every task that has the lock calls release(), every task
\* that called acquire() gets the lock.
\* ======================================================================
C29_NoStarvation ==
  \A t \in Tasks : (tasks.pc[t] = "waiting") ~> (tasks.pc[t] = "holding")

\* The last of the waiting tasks has the lock, handed over by a release().
C29_Witness ==
  /\ tasks.handed
  /\ tasks.arrivals = <<>>
  /\ \E t \in Tasks : tasks.pc[t] = "holding"
  /\ \E t \in Tasks : tasks.pc[t] = "idle"

\* ======================================================================
\* C30: in the versions with a page pool, a step that changes a record of
\* the dataset in memory, or that starts a write of the file, is taken by
\* a task that holds the mutex (mutex or fileMutex): it held the lock
\* before the step or, at the latest, is granted it in the step.
\* ======================================================================
C30_LockDiscipline ==
  [][variant # "sequential" /\ data # <<>> =>
       /\ \A r \in Recs :
            data'[r] # data[r] =>
              \E s \in Slots :
                /\ item[s] = r
                /\ \/ s \in MutexHolders \cup FileMutexHolders
                   \/ pc'[s] \in {"mergeCS", "fileCS"}
       /\ \A s \in Slots :
            snap[s] = <<>> /\ snap'[s] # <<>> =>
              s \in MutexHolders \cup FileMutexHolders]_vars

\* ======================================================================
\* C31: the queue dispatcher pops the records in the order the eligible
\* records have in the input file: when a later eligible record has been
\* popped, every earlier eligible record has been popped too, and the
\* records not yet popped are in the queue in input order.
\* ======================================================================
C31_PopOrder ==
  variant = "queue" /\ data # <<>> =>
    /\ \A a, b \in Recs :
         a < b /\ Unenriched(input[a]) /\ Unenriched(input[b])
           /\ started[b] > 0 => started[a] > 0
    /\ \A i, j \in DOMAIN queue : i < j => queue[i] < queue[j]
    /\ \A r \in Recs :
         Unenriched(input[r]) /\ started[r] = 0 =>
           \E i \in DOMAIN queue : queue[i] = r

\* Two eligible records and two workers: the first record was popped by one
\* worker, the second is still in the queue and the other worker is about
\* to pop.
C31_Witness ==
  /\ variant = "queue" /\ data # <<>>
  /\ \E a, b \in Recs :
       /\ a < b /\ Unenriched(input[a]) /\ Unenriched(input[b])
       /\ started[a] > 0 /\ started[b] = 0 /\ queue = <<b>>
       /\ \E s, t \in Slots : item[s] = a /\ pc[t] \in {"popWait", "popCS"}

\* ======================================================================
\* C32: an error in the phone matching gives no phones and the emails
\* that were found; an error in the address parser or in the email pattern
\* gives no emails from that step and the phones that were found; the
\* extraction returns in every case.
\* ======================================================================
C32_SubStepErrors ==
  scrape.result # <<>> =>
    LET c == scrape.content
        info == scrape.result[1]
        Values(list) == { list[i] : i \in DOMAIN list }
        parsed == IF c.parsed.kind = "list"
                    THEN Values(c.parsed.list) \ {0} ELSE {}
        matched == IF c.regex.kind = "list" THEN Values(c.regex.list)
                   ELSE {}
    IN
    /\ ~info.raised
    /\ Values(info.phones) =
         IF c.phones.kind = "throws" THEN {} ELSE Values(c.phones.list)
    /\ Values(info.emails) = IF parsed # {} THEN parsed ELSE matched

\* The phone matching threw and the address parser threw: the emails of
\* the pattern are returned, with no phones.
C32_Witness ==
  /\ scrape.result # <<>>
  /\ scrape.content.phones.kind = "throws"
  /\ scrape.content.parsed.kind = "throws"
  /\ scrape.content.regex.list = <<1, 2>>
  /\ scrape.result[1].emails = <<1, 2>>
  /\ scrape.result[1].phones = <<>>
  /\ ~scrape.result[1].raised

\* ======================================================================
\* C33: the email pattern is run exactly when the address parser gave no
\* address (it threw, returned null or listed none); when the parser gave
\* an address, the emails returned are its addresses, each once.
\* ======================================================================
C33_FallbackIffNoAddress ==
  scrape.result # <<>> =>
    LET c == scrape.content
        info == scrape.result[1]
        parsed == IF c.parsed.kind = "list"
                    THEN { c.parsed.list[i] : i \in DOMAIN c.parsed.list } \ {0}
                    ELSE {} IN
    /\ info.fallback <=> parsed = {}
    /\ parsed # {} =>
         /\ { info.emails[i] : i \in DOMAIN info.emails } = parsed
         /\ \A i, j \in DOMAIN info.emails :
              info.emails[i] = info.emails[j] => i = j

\* The parser listed one address twice and the pattern would match
\* another: the address is returned once and the pattern was not run.
C33_Witness ==
  /\ scrape.result # <<>>
  /\ scrape.content.parsed = [kind |-> "list", list |-> <<1, 1>>]
  /\ scrape.content.regex.list = <<2>>
  /\ scrape.result[1].emails = <<1>>
  /\ ~scrape.result[1].fallback

\* ======================================================================
\* C34: the queue dispatcher cannot deadlock on its two locks: fileMutex
\* is taken only by the holder of mutex, so nobody ever waits for it and
\* its holder never waits for mutex; as long as a worker has not finished,
\* a step of the run is possible.
\* ======================================================================
C34_NoDeadlock ==
  variant = "queue" =>
    /\ fileMutex.queue = <<>>
    /\ fileMutex.locked => mutex.locked
    /\ \A s \in Slots :
         pc[s] \in {"fileCS", "writing"} =>
           /\ pc[s] # "fileWait"
           /\ \A i \in DOMAIN mutex.queue : mutex.queue[i] # s
    /\ \A s \in Slots : pc[s] # "fileWait"
    /\ mainpc = "join" /\ (\E s \in 1..poolSize : pc[s] # "finished") =>
         ENABLED Next

\* Worker 1 holds both locks and is writing; worker 2 waits for mutex.
C34_Witness ==
  /\ variant = "queue"
  /\ \E s, t \in Slots :
       /\ pc[s] = "writing" /\ fileMutex.locked /\ mutex.locked
       /\ pc[t] \in {"popWait", "mergeWait"}
       /\ mutex.queue = <<t>>

\* ======================================================================
\* C35: acquire() and release() are paired on every path, a failed write
\* included: a lock is locked exactly when a task is between its granted
\* acquire() and its release(), the queue of a lock holds exactly the
\* tasks waiting in its acquire(), each once, and after the join both locks
\* are free with empty queues.
\* ======================================================================
C35_LocksBalanced ==
  variant # "sequential" =>
    LET Waiting(m) == { m.queue[i] : i \in DOMAIN m.queue } IN
    /\ mutex.locked <=> MutexHolders # {}
    /\ fileMutex.locked <=> FileMutexHolders # {}
    /\ Waiting(mutex) = { s \in Slots : pc[s] \in {"popWait", "mergeWait"} }
    /\ Waiting(fileMutex) = { s \in Slots : pc[s] = "fileWait" }
    /\ Cardinality(Waiting(mutex)) = Len(mutex.queue)
    /\ Cardinality(Waiting(fileMutex)) = Len(fileMutex.queue)
    /\ mainpc \in {"cleanup", "done"} =>
         mutex = NewMutex /\ fileMutex = NewMutex

\* A write of the queue dispatcher failed and the run is over with both
\* locks free.
C35_Witness ==
  /\ variant = "queue" /\ mainpc = "done" /\ data # <<>>
  /\ run.writeErrors
  /\ \A s \in 1..poolSize : pc[s] = "finished"
  /\ mutex = NewMutex /\ fileMutex = NewMutex

\* ======================================================================
\* C36: when a run of a dispatcher with a page pool is over, no write
\* failed and a result was merged, the file holds the dataset in memory:
\* every merged contactInfo is in the file.
\* ======================================================================
C36_NoLostUpdate ==
  /\ variant # "sequential" /\ mainpc \in {"cleanup", "done"}
  /\ data # <<>> /\ ~run.writeErrors
  /\ \E r \in Recs : data[r] # input[r]
  => /\ disk.content = data
     /\ ~disk.torn

\* A batch of two tasks merged two results, their writes followed one
\* another, and the file has both.
C36_Witness ==
  /\ variant = "batch" /\ mainpc = "done" /\ ~run.writeErrors
  /\ poolSize = 2 /\ data # <<>>
  /\ \A r \in Recs : data[r].contactInfo # <<>> /\ input[r].contactInfo = <<>>
  /\ disk.content = data

\* ======================================================================
\* C37: a failed file write gives back fileMutex, stays inside the worker
\* or the batch task (the run is not rejected and goes on), and leaves the
\* dataset in memory as it is; no merged contactInfo is taken back, every
\* write that starts later takes the whole dataset in memory, and the run
\* ends with every eligible record processed and the locks free.
\* ======================================================================
C37_WriteFailure ==
  /\ [](variant # "sequential" /\ run.writeErrors =>
          /\ Running => ~run.rejected
          /\ mainpc \in {"cleanup", "done"} =>
               /\ \A r \in Recs : Unenriched(input[r]) => started[r] > 0
               /\ mutex = NewMutex /\ fileMutex = NewMutex)
  /\ [][variant # "sequential" /\ data # <<>> =>
          /\ \A s \in Slots :
               pc[s] = "writing" /\ pc'[s] # "writing" =>
                 /\ (\E truncated \in BOOLEAN : WriteFail(s, truncated)) =>
                      /\ data' = data
                      /\ mainpc' = mainpc
                      /\ ~run'.rejected
                      /\ pc'[s] \in {"written", "settled"}
                      /\ fileMutex'.locked =>
                           \E t \in Slots \ {s} : pc'[t] = "fileCS"
          /\ \A s \in Slots :
               snap[s] = <<>> /\ snap'[s] # <<>> => snap'[s] = data
          /\ \A r \in Recs :
               data[r].contactInfo # <<>> =>
                 data'[r].contactInfo = data[r].contactInfo]_vars

\* The write after the first merge failed, the write after the second
\* succeeded: the file has both results.
C37_Witness ==
  /\ variant # "sequential" /\ mainpc = "done" /\ run.writeErrors
  /\ data # <<>> /\ ~disk.torn
  /\ \A r \in Recs : data[r].contactInfo # <<>> /\ input[r].contactInfo = <<>>
  /\ disk.content = data

\* ======================================================================
\* C38: in a dispatcher with a page pool the extractContactInfo calls in
\* progress, those whose caller has timed out included, are never more
\* than the pages of the pool.
\* ======================================================================
C38_BoundedConcurrency ==
  variant # "sequential" =>
    Cardinality({ r \in Recs : InFlight(op[r]) }) <= poolSize

\* ======================================================================
\* C39: in the batch dispatchers a record of a later batch is started only
\* when every task of the earlier batches has settled (its call was
\* delivered or its outer timer fired); a batch after the first starts at
\* the end of a delay, and a delay is entered only when records are left
\* for another batch.
\* ======================================================================
C39_BatchBarrier ==
  /\ [](IsBatch /\ data # <<>> /\ batchSize(variant) > 0 =>
          LET Batch(k) == (k - 1) \div batchSize(variant) IN
          /\ \A ka, kb \in DOMAIN queue :
               Batch(ka) < Batch(kb) /\ started[queue[kb]] > 0 =>
                 /\ started[queue[ka]] > 0
                 /\ op[queue[ka]].phase = "done" \/ op[queue[ka]].abandoned
                 /\ \A s \in Slots :
                      item[s] = queue[ka] => pc[s] \in {"idle", "settled"}
          /\ mainpc = "delay" =>
               /\ \A s \in Slots : pc[s] = "idle"
               /\ \E k \in DOMAIN queue : started[queue[k]] = 0)
  /\ [][IsBatch /\ data # <<>> =>
          \A r \in Recs : started'[r] # started[r] => mainpc = "delay"]_vars

\* One page, two eligible records: the first batch has settled, the delay
\* is over and the second record is being enriched.
C39_Witness ==
  /\ variant = "batch" /\ poolSize = 1 /\ mainpc = "join" /\ data # <<>>
  /\ queue = <<1, 2>>
  /\ op[1].phase = "done" /\ started[2] = 1 /\ InFlight(op[2])

====
